---- MODULE Spec2Model ----
(***************************************************************************)
(* OCTO cost estimator (lib/core/cost_estimator.py): pricing, calculate,   *)
(* the daily cost log, its summary and the savings estimate; the tier      *)
(* classifier (lib/core/model_tier.py): configuration, classify and        *)
(* should_tier; and the session monitor (lib/core/session_monitor.py):     *)
(* analyze_session, the growth rate, get_all_sessions and get_alerts.      *)
(*                                                                         *)
(* Money.  The source computes (tokens / 1_000_000) * rate with rates in   *)
(* dollars per million tokens.  Here a rate is held in cents per million   *)
(* tokens (3.00 -> 300, 0.30 -> 30) and a cost in units of 10^-8 dollar,   *)
(* so that a cost component is exactly tokens * rate.                      *)
(*                                                                         *)
(* Dictionaries are functions; d.get(k, default) is Get(d, k, default).    *)
(***************************************************************************)
EXTENDS Integers, Sequences, FiniteSets, TLC

VARIABLES
    pricing,        \* CostEstimator.pricing, the loaded pricing data
    response,       \* the response dict of the latest calculate call
    cost,           \* the RequestCost returned by the latest calculate call
    prevResponse,   \* history: the response of the call before, when the
                    \* latest call is a variation of it (see Related)
    prevCost,       \* history: the RequestCost of that earlier call
    pricingFile,    \* PRICING_FILE on disk (lib/config/model_pricing.json)
    estPc,          \* CostEstimator(): "new", "ready" or "raised"
    costsDir,       \* whether OCTO_HOME/costs exists
    configPath,     \* the file the config_path argument of ModelTier names
    octoConfigFile, \* OCTO_HOME/config.json on disk
    tierPc,         \* ModelTier(): "new", "ready" or "raised"
    config,         \* ModelTier.config
    today,          \* date.today(), as a day number
    files,          \* the costs directory: day of an existing file -> contents
    writers,        \* per estimator process: where it is in record
    started,        \* history: the number of record calls begun
    recorded,       \* history: per day, the records of the calls that
                    \* returned, in the order they returned
    summary,        \* the day and result of the latest get_daily_summary
                    \* call, while no record call has run since
    prevSummary,    \* history: the same of the call before it, when the
                    \* latest call repeats it
    savings,        \* the flags and result of the latest estimate_savings
                    \* call, while no record call has run since
    patterns,       \* ModelTier.haiku_patterns, opus_patterns, sonnet_patterns
    tierInput,      \* the message argument of the latest classify call
    decision,       \* what the latest classify call returned or raised
    applied,        \* the arguments and result of the latest should_tier call
    sessionsDir,    \* SessionMonitor.sessions_dir on disk: file name -> file
    clock,          \* the latest reading of datetime.now().timestamp(), in
                    \* whole seconds
    size_history,   \* SessionMonitor.size_history
    health,         \* the path and result of the latest analyze_session call
    sessions,       \* the call and result of the latest get_all_sessions or
                    \* get_alerts call
    analyses,       \* history: the number of SessionMonitor calls made
    costKwargs,     \* the keyword arguments of the latest Cost(...) call
    costObj         \* the Cost object it built

costVars == <<pricing, response, cost, prevResponse, prevCost>>
loadVars == <<pricingFile, estPc, costsDir, configPath, octoConfigFile,
              tierPc, config>>

logVars  == <<today, files, writers, started, recorded>>
sumVars  == <<summary, prevSummary, savings>>
tierVars == <<patterns, tierInput, decision, applied>>
monVars  == <<sessionsDir, clock, size_history, health, sessions, analyses>>
objVars  == <<costKwargs, costObj>>

vars == <<costVars, loadVars, logVars, sumVars, tierVars, monVars, objVars>>

(***************************************************************************)
(* Bounds                                                                  *)
(***************************************************************************)
TokenStep == 500      \* the smallest token count above 0
MaxDoublings == 2     \* token counts are 0 and TokenStep * 2^k up to this k
NumWriters == 3       \* estimator processes sharing the costs directory
MaxCalls  == 3        \* record calls begun in a behaviour
MaxDay    == 1        \* days are 0..MaxDay
MaxAnalyses == 3      \* SessionMonitor calls made in a behaviour

(***************************************************************************)
(* Values                                                                  *)
(***************************************************************************)
None      == "None"
EmptyDict == <<>>
NoCall    == [no_call |-> TRUE]     \* "no calculate call yet"

HAIKU  == "claude-haiku-3-5-20241022"
SONNET == "claude-sonnet-4-20250514"
OPUS   == "claude-opus-4-20250514"
UNKNOWN_MODEL == "unknown-model-xyz"

Get(d, k, default) == IF k \in DOMAIN d THEN d[k] ELSE default

Max(a, b) == IF a >= b THEN a ELSE b

\* The sheet written out twice in the source: in _load_pricing's built-in
\* pricing and as the last-resort default of _get_model_pricing.
BuiltinSheet ==
    [input_per_million       |-> 300,
     output_per_million      |-> 1500,
     cache_read_per_million  |-> 30,
     cache_write_per_million |-> 375]

\* What _load_pricing returns when PRICING_FILE does not exist.
DefaultPricing ==
    [models  |-> (SONNET :> BuiltinSheet),
     aliases |-> EmptyDict]

\* The contents of lib/config/model_pricing.json: three tiers and their
\* short aliases.
FilePricing ==
    [models  |-> (HAIKU  :> [input_per_million       |-> 100,
                             output_per_million      |-> 500,
                             cache_read_per_million  |-> 10,
                             cache_write_per_million |-> 125]) @@
                 (SONNET :> BuiltinSheet) @@
                 (OPUS   :> [input_per_million       |-> 1500,
                             output_per_million      |-> 7500,
                             cache_read_per_million  |-> 150,
                             cache_write_per_million |-> 1875]),
     aliases |-> ("haiku"  :> HAIKU) @@
                 ("sonnet" :> SONNET) @@
                 ("opus"   :> OPUS)]

(***************************************************************************)
(* Configuration files and their loading                                   *)
(***************************************************************************)
\* A file on disk: absent; present but open() fails; present, but its text
\* is not JSON; or present with the JSON value content.
MissingFile     == [state |-> "missing"]
UnreadableFile  == [state |-> "unreadable"]
UnparseableFile == [state |-> "unparseable"]
JsonFile(content) == [state |-> "json", content |-> content]
NoPath          == [state |-> "no path"]    \* config_path = None

\* Path.exists()
Exists(file) == file.state # "missing"

\* The result of a call: a returned value or a raised exception.
Return(v) == [raised |-> None, value |-> v]
Raise(e)  == [raised |-> e]

\* with open(path) as f: return json.load(f), for a path that exists
json_load(file) ==
    CASE file.state = "unreadable"  -> Raise("PermissionError")
      [] file.state = "unparseable" -> Raise("JSONDecodeError")
      [] file.state = "json"        -> Return(file.content)

\* CostEstimator._load_pricing
_load_pricing(file) ==
    IF Exists(file)
    THEN json_load(file)
    ELSE Return(DefaultPricing)

\* ModelTier._load_config; config_path is NoPath or the file it names
_load_config(config_path, default_config) ==
    IF config_path # NoPath /\ Exists(config_path)
    THEN json_load(config_path)
    ELSE IF Exists(default_config)
         THEN LET full_config == json_load(default_config)
              IN  IF full_config.raised # None
                  THEN full_config
                  ELSE Return(Get(Get(full_config.value, "optimization",
                                      EmptyDict),
                                  "modelTiering", EmptyDict))
         ELSE Return(EmptyDict)

(***************************************************************************)
(* ModelTier: patterns, classify, should_tier                              *)
(*                                                                         *)
(* A text is the sequence of its words, which single blanks separate;      *)
(* Blank as a word stands for one more blank at that place.  A regular     *)
(* expression is the string the source writes, and search gives, pattern   *)
(* by pattern, what re.search with re.IGNORECASE finds in such a text.     *)
(***************************************************************************)
Blank == " "

\* a str and a list, as arguments of classify
Str(words)  == [str |-> words]
List(items) == [list |-> items]
IsStr(value) == "str" \in DOMAIN value

\* str.lower(), on the words and model ids that have capitals
lower(word) ==
    CASE word = "Yes"   -> "yes"
      [] word = "What"  -> "what"
      [] word = "Tell"  -> "tell"
      [] word = "Claude-Opus-4" -> "claude-opus-4"
      [] OTHER -> word

\* the words that begin with a word of a pattern and go on
Longer == {<<"file", "files">>, <<"function", "functions">>,
           <<"dir", "directory">>, <<"test", "tests">>, <<"api", "apis">>}

\* word begins with prefix
Starts(word, prefix) == word = prefix \/ <<prefix, word>> \in Longer

\* ^(a|b)\b at the first word of text
FirstIn(text, first) == Len(text) >= 1 /\ lower(text[1]) \in first

\* \b(a|b)\b somewhere in text
AnyIn(text, whole) == \E i \in 1..Len(text) : lower(text[i]) \in whole

\* \b(a|b)\b.*\b(c|d): a whole word, and after it a word that begins with
\* one of the second group
Then(text, whole, prefixes) ==
    \E i, j \in 1..Len(text) :
        /\ i < j
        /\ lower(text[i]) \in whole
        /\ \E p \in prefixes : Starts(lower(text[j]), p)

\* (a|b)\s+(c|d) from the word at i on
Pair(text, i, whole, prefixes) ==
    /\ i + 1 <= Len(text)
    /\ lower(text[i]) \in whole
    /\ \E p \in prefixes : Starts(lower(text[i + 1]), p)

DEFAULT_HAIKU_PATTERNS ==
    <<"^(what|which|where|when|who|how many)\\b",
      "\\b(list|show|display|get)\\s+(files?|dirs?|folders?)",
      "^(yes|no|confirm|cancel|ok|done|thanks?|thank you)\\b",
      "\\buse\\s+(the\\s+)?(grep|glob|read|bash)\\s+tool",
      "^(check|verify|validate|test)\\s+(if|that|whether)",
      "^(go to|open|navigate|cd)\\s+">>

DEFAULT_OPUS_PATTERNS ==
    <<"\\b(architect|design|plan)\\b.*\\b(system|service|infrastructure|api)",
      "\\b(trade-?off|compare|evaluate|contrast)\\b.*\\b(approach|solution|option|method)",
      "\\b(security|vulnerability|attack|threat)\\b.*\\b(audit|review|assess|analyze)",
      "\\b(optimize|performance|scalability)\\b.*\\b(system|architecture|design)",
      "\\b(debug|investigate|diagnose)\\b.*\\b(complex|mysterious|intermittent)">>

DEFAULT_SONNET_PATTERNS ==
    <<"\\b(write|create|implement|build|add|generate)\\b.*\\b(function|class|method|api|component)",
      "\\b(fix|debug|solve|resolve|repair)\\b.*\\b(bug|error|issue|problem)",
      "\\b(refactor|restructure|reorganize|clean up|improve)\\b",
      "\\b(test|spec|coverage|unit test|integration test)\\b",
      "\\b(document|explain|describe)\\b.*\\b(code|function|class|api)">>

\* re.compile(pattern, re.IGNORECASE).search(text)
search(pattern, text) ==
    CASE pattern = DEFAULT_HAIKU_PATTERNS[1] ->
            \/ FirstIn(text, {"what", "which", "where", "when", "who"})
            \/ Pair(text, 1, {"how"}, {"many"}) /\ text[2] = "many"
      [] pattern = DEFAULT_HAIKU_PATTERNS[2] ->
            \E i \in 1..Len(text) :
                Pair(text, i, {"list", "show", "display", "get"},
                     {"file", "dir", "folder"})
      [] pattern = DEFAULT_HAIKU_PATTERNS[3] ->
            FirstIn(text, {"yes", "no", "confirm", "cancel", "ok", "done",
                           "thank", "thanks"})
      [] pattern = DEFAULT_HAIKU_PATTERNS[4] ->
            \E i \in 1..Len(text) :
                \/ /\ Pair(text, i, {"use"}, {"grep", "glob", "read", "bash"})
                   /\ text[i + 1] \in {"grep", "glob", "read", "bash"}
                   /\ Pair(text, i + 1, {"grep", "glob", "read", "bash"},
                           {"tool"})
                \/ /\ Pair(text, i, {"use"}, {"the"})
                   /\ text[i + 1] = "the"
                   /\ Pair(text, i + 1, {"the"},
                           {"grep", "glob", "read", "bash"})
                   /\ Pair(text, i + 2, {"grep", "glob", "read", "bash"},
                           {"tool"})
      [] pattern = DEFAULT_HAIKU_PATTERNS[5] ->
            Pair(text, 1, {"check", "verify", "validate", "test"},
                 {"if", "that", "whether"})
      [] pattern = DEFAULT_HAIKU_PATTERNS[6] ->
            \/ FirstIn(text, {"open", "navigate", "cd"}) /\ Len(text) >= 2
            \/ Pair(text, 1, {"go"}, {"to"}) /\ text[2] = "to"
                                             /\ Len(text) >= 3
      [] pattern = DEFAULT_OPUS_PATTERNS[1] ->
            Then(text, {"architect", "design", "plan"},
                 {"system", "service", "infrastructure", "api"})
      [] pattern = DEFAULT_OPUS_PATTERNS[2] ->
            Then(text, {"trade-off", "tradeoff", "compare", "evaluate",
                        "contrast"},
                 {"approach", "solution", "option", "method"})
      [] pattern = DEFAULT_OPUS_PATTERNS[3] ->
            Then(text, {"security", "vulnerability", "attack", "threat"},
                 {"audit", "review", "assess", "analyze"})
      [] pattern = DEFAULT_OPUS_PATTERNS[4] ->
            Then(text, {"optimize", "performance", "scalability"},
                 {"system", "architecture", "design"})
      [] pattern = DEFAULT_OPUS_PATTERNS[5] ->
            Then(text, {"debug", "investigate", "diagnose"},
                 {"complex", "mysterious", "intermittent"})
      [] pattern = DEFAULT_SONNET_PATTERNS[1] ->
            Then(text, {"write", "create", "implement", "build", "add",
                        "generate"},
                 {"function", "class", "method", "api", "component"})
      [] pattern = DEFAULT_SONNET_PATTERNS[2] ->
            Then(text, {"fix", "debug", "solve", "resolve", "repair"},
                 {"bug", "error", "issue", "problem"})
      [] pattern = DEFAULT_SONNET_PATTERNS[3] ->
            \/ AnyIn(text, {"refactor", "restructure", "reorganize",
                            "improve"})
            \/ \E i \in 1..Len(text) :
                   Pair(text, i, {"clean"}, {"up"}) /\ text[i + 1] = "up"
      [] pattern = DEFAULT_SONNET_PATTERNS[4] ->
            AnyIn(text, {"test", "spec", "coverage"})
      [] pattern = DEFAULT_SONNET_PATTERNS[5] ->
            Then(text, {"document", "explain", "describe"},
                 {"code", "function", "class", "api"})

\* ModelTier._compile_patterns: the three lists, from the configuration or
\* the defaults
_compile_patterns(cfg) ==
    [haiku  |-> Get(cfg, "haikuPatterns", DEFAULT_HAIKU_PATTERNS),
     opus   |-> Get(cfg, "opusPatterns", DEFAULT_OPUS_PATTERNS),
     sonnet |-> Get(cfg, "sonnetPatterns", DEFAULT_SONNET_PATTERNS)]

\* Variant: the confidence grows with the number of patterns matched.
TierDecision_confidence_by_count(recommended_model, confidence, reason, patterns_matched) ==
    [recommended_model |-> recommended_model,
     confidence        |-> 50 + 10 * Len(patterns_matched),
     reason            |-> reason,
     patterns_matched  |-> patterns_matched]

\* @dataclass TierDecision; the confidence is in hundredths
TierDecision(recommended_model, confidence, reason, patterns_matched) ==
    [recommended_model |-> recommended_model,
     confidence        |-> confidence,
     reason            |-> reason,
     patterns_matched  |-> patterns_matched]

\* str.strip(): the blanks at both ends go
RECURSIVE strip(_)
strip(text) ==
    IF text # <<>> /\ Head(text) = Blank
    THEN strip(Tail(text))
    ELSE IF text # <<>> /\ text[Len(text)] = Blank
         THEN strip(SubSeq(text, 1, Len(text) - 1))
         ELSE text

\* Variant: the loop stops at the first pattern found.
matched_patterns_first_only(group, pattern_list, text) ==
    LET found(p) == search(p, text)
        hits == SelectSeq(pattern_list, found)
    IN  IF hits = <<>> THEN <<>> ELSE <<<<group, hits[1]>>>>

\* the loop over one pattern list: f"{group}:{pattern_str}" for every
\* pattern that search finds in text
matched_patterns(group, pattern_list, text) ==
    LET found(p) == search(p, text)
        hits == SelectSeq(pattern_list, found)
    IN  [i \in 1..Len(hits) |-> <<group, hits[i]>>]

\* Variant: the opus patterns are checked before the haiku patterns.
classify_opus_first(cfg, compiled, message) ==
    IF ~IsStr(message)
    THEN Raise("AttributeError")
    ELSE LET text == strip(message.str)
             haiku  == matched_patterns("haiku", compiled.haiku, text)
             opus   == matched_patterns("opus", compiled.opus, text)
             sonnet == matched_patterns("sonnet", compiled.sonnet, text)
         IN  Return(
               IF opus # <<>>
               THEN TierDecision("opus", 80,
                        "Complex reasoning/architecture task detected", opus)
               ELSE IF haiku # <<>>
               THEN TierDecision("haiku", 85,
                        "Simple query/operation detected", haiku)
               ELSE IF sonnet # <<>>
               THEN TierDecision("sonnet", 90,
                        "Code generation/modification task detected", sonnet)
               ELSE TierDecision(Get(cfg, "defaultModel", "sonnet"), 60,
                        "No specific patterns matched, using default", <<>>))

\* ModelTier.classify(message) on an instance with the configuration cfg and
\* the compiled pattern lists; message.strip() raises AttributeError when
\* message is a list
classify(cfg, compiled, message) ==
    IF ~IsStr(message)
    THEN Raise("AttributeError")
    ELSE LET text == strip(message.str)
             haiku  == matched_patterns("haiku", compiled.haiku, text)
             opus   == matched_patterns("opus", compiled.opus, text)
             sonnet == matched_patterns("sonnet", compiled.sonnet, text)
         IN  Return(
               IF haiku # <<>>
               THEN TierDecision("haiku", 85,
                        "Simple query/operation detected", haiku)
               ELSE IF opus # <<>>
               THEN TierDecision("opus", 80,
                        "Complex reasoning/architecture task detected", opus)
               ELSE IF sonnet # <<>>
               THEN TierDecision("sonnet", 90,
                        "Code generation/modification task detected", sonnet)
               ELSE TierDecision(Get(cfg, "defaultModel", "sonnet"), 60,
                        "No specific patterns matched, using default", <<>>))

\* 'opus' in s, for the lower-case model ids
contains_opus(s) == s \in {"opus", "claude-opus-4-20250514", "claude-opus-4"}

\* Variant: the check of the current model is missing.
should_tier_without_guardrail(cfg, current_model, recommended_model, min_confidence) ==
    IF ~Get(cfg, "enabled", TRUE) THEN FALSE ELSE TRUE

\* ModelTier.should_tier; min_confidence is not read
should_tier(cfg, current_model, recommended_model, min_confidence) ==
    IF ~Get(cfg, "enabled", TRUE)
    THEN FALSE
    ELSE IF contains_opus(lower(current_model)) /\ recommended_model # "opus"
         THEN FALSE
         ELSE TRUE

\* the tier classifier is not part of the specification
TierNotInUse ==
    /\ configPath = NoPath
    /\ octoConfigFile = MissingFile
    /\ tierPc = "new"
    /\ config = EmptyDict
    /\ patterns = NoCall
    /\ tierInput = NoCall
    /\ decision = NoCall
    /\ applied = NoCall

(***************************************************************************)
(* Cost, CostEstimator._resolve_model, _get_model_pricing, calculate       *)
(***************************************************************************)
\* Variant: the derived total leaves out the cache-write component.
Cost_no_cache_write(input_cost, output_cost, cache_read_cost, cache_write_cost, total) ==
    [input_cost       |-> input_cost,
     output_cost      |-> output_cost,
     cache_read_cost  |-> cache_read_cost,
     cache_write_cost |-> cache_write_cost,
     total            |-> IF total = 0
                          THEN input_cost + output_cost + cache_read_cost
                          ELSE total]

\* @dataclass Cost with __post_init__: a total of 0.0 (the default) is
\* replaced by the sum of the four components, any other total is kept.
Cost(input_cost, output_cost, cache_read_cost, cache_write_cost, total) ==
    [input_cost       |-> input_cost,
     output_cost      |-> output_cost,
     cache_read_cost  |-> cache_read_cost,
     cache_write_cost |-> cache_write_cost,
     total            |-> IF total = 0
                          THEN input_cost + output_cost + cache_read_cost
                               + cache_write_cost
                          ELSE total]

_resolve_model(p, model) ==
    LET aliases == Get(p, "aliases", EmptyDict)
    IN  Get(aliases, model, model)

\* Variant: an id without an entry always gets the built-in sheet.
_get_model_pricing_builtin_only(p, model) ==
    LET model_id == _resolve_model(p, model)
        models   == Get(p, "models", EmptyDict)
    IN  IF model_id \in DOMAIN models
        THEN models[model_id]
        ELSE BuiltinSheet

\* "Default to Sonnet pricing": an id without an entry gets the sheet the
\* configuration has for SONNET, and the built-in sheet only without one.
_get_model_pricing(p, model) ==
    LET model_id == _resolve_model(p, model)
        models   == Get(p, "models", EmptyDict)
    IN  IF model_id \in DOMAIN models
        THEN models[model_id]
        ELSE Get(models, SONNET, BuiltinSheet)

\* Variants: cache-write tokens taken off as well; nothing taken off; no
\* clamp at 0.
actual_input_minus_cache_write(usage) ==
    Max(0, Get(usage, "input_tokens", 0)
           - Get(usage, "cache_read_input_tokens", 0)
           - Get(usage, "cache_creation_input_tokens", 0))

actual_input_all_fresh(usage) == Get(usage, "input_tokens", 0)

actual_input_unclamped(usage) ==
    Get(usage, "input_tokens", 0) - Get(usage, "cache_read_input_tokens", 0)

\* "Actual input = total - cached" (line 116).
actual_input(usage) ==
    Max(0, Get(usage, "input_tokens", 0)
           - Get(usage, "cache_read_input_tokens", 0))

\* (tokens / 1_000_000) * rate, in units of 10^-8 dollar.
per_million(tokens, rate) == tokens * rate

calculate(p, resp, now) ==
    LET model        == Get(resp, "model", SONNET)
        sheet        == _get_model_pricing(p, model)
        usage        == Get(resp, "usage", EmptyDict)
        input_tokens == Get(usage, "input_tokens", 0)
        output_tokens == Get(usage, "output_tokens", 0)
        cache_read   == Get(usage, "cache_read_input_tokens", 0)
        cache_write  == Get(usage, "cache_creation_input_tokens", 0)
    IN  [timestamp          |-> now,
         model              |-> model,
         input_tokens       |-> input_tokens,
         output_tokens      |-> output_tokens,
         cache_read_tokens  |-> cache_read,
         cache_write_tokens |-> cache_write,
         cost |-> Cost(per_million(actual_input(usage),
                                   sheet.input_per_million),
                       per_million(output_tokens, sheet.output_per_million),
                       per_million(cache_read, sheet.cache_read_per_million),
                       per_million(cache_write, sheet.cache_write_per_million),
                       0),
         session_id         |-> None]

(***************************************************************************)
(* The daily cost log                                                      *)
(*                                                                         *)
(* A file is a sequence of cells.  json.dumps writes an object as an       *)
(* opening brace, the object's members and a closing brace; record adds    *)
(* the newline.                                                            *)
(***************************************************************************)
LBrace  == [ch |-> "{"]
RBrace  == [ch |-> "}"]
Newline == [ch |-> "newline"]

Days    == 0..MaxDay
Writers == 1..NumWriters

\* json.dumps(record)
json_dumps(record) == <<LBrace, record, RBrace>>

\* the dict record() builds from a RequestCost and the session id
record_dict(request_cost, session_id) ==
    [timestamp          |-> request_cost.timestamp,
     model              |-> request_cost.model,
     input_tokens       |-> request_cost.input_tokens,
     output_tokens      |-> request_cost.output_tokens,
     cache_read_tokens  |-> request_cost.cache_read_tokens,
     cache_write_tokens |-> request_cost.cache_write_tokens,
     input_cost         |-> request_cost.cost.input_cost,
     output_cost        |-> request_cost.cost.output_cost,
     cache_read_cost    |-> request_cost.cost.cache_read_cost,
     cache_write_cost   |-> request_cost.cost.cache_write_cost,
     total              |-> request_cost.cost.total,
     session_id         |-> session_id]

\* Variant: mode 'w', which empties the file.
open_truncating(fs, day) == (day :> <<>>) @@ fs

\* open(cost_file, 'a'): the file is created empty when it does not exist
\* and is left as it is otherwise.
open_append(fs, day) == IF day \in DOMAIN fs THEN fs ELSE (day :> <<>>) @@ fs

\* f.write(json.dumps(record) + '\n'): the text goes to the file object's
\* buffer.
f_write(buffer, record) == buffer \o json_dumps(record) \o <<Newline>>

\* Variant: the buffer is written at the offset the file had at open time.
flush_at_open_offset(content, offset, buffer) ==
    SubSeq(content, 1, offset) \o buffer
    \o SubSeq(content, offset + Len(buffer) + 1, Len(content))

\* Leaving the with block closes the file, which flushes the buffer in one
\* write to a descriptor opened with O_APPEND: the bytes go to the end of
\* the file as it is at that moment, whatever the offset at open time.
flush_append(content, offset, buffer) == content \o buffer

\* "for line in f" / f.readlines(): the lines of a file, each with the
\* newline that ends it; a last line without a newline is a line too.
RECURSIVE readlines_from(_, _)
readlines_from(content, line) ==
    IF content = <<>>
    THEN IF line = <<>> THEN <<>> ELSE <<line>>
    ELSE IF Head(content) = Newline
         THEN <<Append(line, Newline)>> \o readlines_from(Tail(content), <<>>)
         ELSE readlines_from(Tail(content), Append(line, Head(content)))

readlines(content) == readlines_from(content, <<>>)

\* Text a file may hold that record did not write: a line that is not JSON,
\* and the JSON text of a list.
TextCell == [ch |-> "invalid json line"]
ListCell == [ch |-> "[1, 2]"]

\* the list json.loads gives for ListCell; a list has no method get
PyList == [python_list |-> <<1, 2>>]
IsDict(value) == "python_list" \notin DOMAIN value

\* what stands between braces: the members of an object
IsMembers(cell) == "ch" \notin DOMAIN cell

\* json.loads(line): the object between the braces, or the list; white
\* space after it is allowed.
json_loads(line) ==
    LET text == IF line # <<>> /\ line[Len(line)] = Newline
                THEN SubSeq(line, 1, Len(line) - 1)
                ELSE line
    IN  IF /\ Len(text) = 3
           /\ text[1] = LBrace
           /\ text[3] = RBrace
           /\ IsMembers(text[2])
        THEN Return(text[2])
        ELSE IF text = <<ListCell>>
             THEN Return(PyList)
             ELSE Raise("JSONDecodeError")

(***************************************************************************)
(* CostEstimator.get_daily_summary and estimate_savings                    *)
(***************************************************************************)
\* Variant: the key the unit tests write, 'total_cost'.
record_total_cost_key(record) == Get(record, "total_cost", 0)

\* record.get('total', 0)
record_total(record) == Get(record, "total", 0)

\* open(cost_file): mode 'r' leaves the file as it is
open_read(fs, day) == fs

\* The loop over the lines left to read, acc holding the five running
\* totals.  Only json.JSONDecodeError is caught; record.get on a value that
\* is not a dict raises AttributeError, which ends the call.
RECURSIVE scan_lines(_, _)
scan_lines(lines, acc) ==
    IF lines = <<>>
    THEN Return(acc)
    ELSE LET parsed == json_loads(Head(lines))
         IN  IF parsed.raised = "JSONDecodeError"
             THEN scan_lines(Tail(lines), acc)
             ELSE IF ~IsDict(parsed.value)
                  THEN Raise("AttributeError")
                  ELSE LET record == parsed.value
                       IN  scan_lines(Tail(lines),
                             [total_cost     |-> acc.total_cost
                                                 + record_total(record),
                              total_requests |-> acc.total_requests + 1,
                              total_input    |-> acc.total_input
                                  + Get(record, "input_tokens", 0),
                              total_output   |-> acc.total_output
                                  + Get(record, "output_tokens", 0),
                              total_cached   |-> acc.total_cached
                                  + Get(record, "cache_read_tokens", 0)])

\* get_daily_summary(day) over the costs directory fs; day = None is
\* date.today()
get_daily_summary(fs, day) ==
    IF day \notin DOMAIN fs
    THEN Return([date              |-> day,
                 requests          |-> 0,
                 total_cost        |-> 0,
                 input_tokens      |-> 0,
                 output_tokens     |-> 0,
                 cache_read_tokens |-> 0])
    ELSE LET scanned == scan_lines(readlines(open_read(fs, day)[day]),
                                   [total_cost     |-> 0,
                                    total_requests |-> 0,
                                    total_input    |-> 0,
                                    total_output   |-> 0,
                                    total_cached   |-> 0])
         IN  IF scanned.raised # None
             THEN scanned
             ELSE Return([date              |-> day,
                          requests          |-> scanned.value.total_requests,
                          total_cost        |-> scanned.value.total_cost,
                          input_tokens      |-> scanned.value.total_input,
                          output_tokens     |-> scanned.value.total_output,
                          cache_read_tokens |-> scanned.value.total_cached])

\* the costs directory after a get_daily_summary(day) call
after_summary(fs, day) == IF day \in DOMAIN fs THEN open_read(fs, day) ELSE fs

\* The floats of estimate_savings are held as fractions in lowest terms
\* (of the cost unit, for amounts), so that the arithmetic is exact.
RECURSIVE gcd(_, _)
gcd(a, b) == IF b = 0 THEN a ELSE gcd(b, a % b)

Fraction(num, den) ==
    LET g == gcd(num, den) IN [num |-> num \div g, den |-> den \div g]

Zero == [num |-> 0, den |-> 1]
One  == [num |-> 1, den |-> 1]

\* x * y, x - y and x / y
Times(x, y) ==
    LET g1 == gcd(x.num, y.den)
        g2 == gcd(y.num, x.den)
    IN  [num |-> (x.num \div g1) * (y.num \div g2),
         den |-> (x.den \div g2) * (y.den \div g1)]

Minus(x, y) == Fraction(x.num * y.den - y.num * x.den, x.den * y.den)

Over(x, y) == Times(x, [num |-> y.den, den |-> y.num])

\* Variant: the two factors added up, 1 + 0.4 + 0.3.
multiplier_additive(with_caching, with_tiering) ==
    Fraction(10 + (IF with_caching THEN 4 ELSE 0)
                + (IF with_tiering THEN 3 ELSE 0), 10)

\* multiplier = 1.0, then *= 1.4 with caching, then *= 1.3 with tiering
multiplier(with_caching, with_tiering) ==
    LET cached == IF with_caching THEN Times(One, Fraction(14, 10)) ELSE One
    IN  IF with_tiering THEN Times(cached, Fraction(13, 10)) ELSE cached

estimate_savings(fs, now, with_caching, with_tiering) ==
    LET day_summary == get_daily_summary(fs, now)
    IN  IF day_summary.raised # None
        THEN day_summary
        ELSE LET base_cost == day_summary.value.total_cost
                 estimated_without ==
                     Times(Fraction(base_cost, 1),
                           multiplier(with_caching, with_tiering))
                 saved == Minus(estimated_without, Fraction(base_cost, 1))
             IN  IF base_cost = 0
                 THEN Return([base_cost              |-> Zero,
                              estimated_without_octo |-> Zero,
                              savings                |-> Zero,
                              savings_percent        |-> Zero])
                 ELSE Return([base_cost              |-> Fraction(base_cost, 1),
                              estimated_without_octo |-> estimated_without,
                              savings                |-> saved,
                              savings_percent        |->
                                  IF estimated_without.num > 0
                                  THEN Times(Over(saved, estimated_without),
                                             Fraction(100, 1))
                                  ELSE Zero])

Idle == [pc |-> "idle"]

\* the log is not part of the specification
LogNotInUse ==
    /\ today = 0
    /\ files = EmptyDict
    /\ writers = [w \in Writers |-> Idle]
    /\ started = 0
    /\ recorded = [d \in Days |-> <<>>]
    /\ summary = NoCall
    /\ prevSummary = NoCall
    /\ savings = NoCall

(***************************************************************************)
(* SessionMonitor (lib/core/session_monitor.py)                            *)
(*                                                                         *)
(* A file name is the sequence of its parts between dots, a session id     *)
(* (Path.stem) the name without its last part.  A session file is          *)
(* MissingFile when stat() fails on it, and otherwise a record with its    *)
(* size in bytes and, unless it cannot be opened, its lines, each a        *)
(* sequence of cells.                                                      *)
(* The text of a message is a sequence of pieces.  Times are whole         *)
(* seconds; the growth rate is a float, and the fraction of the context    *)
(* utilization is held exactly, as Fraction.                               *)
(***************************************************************************)
MODEL_CONTEXT_LIMITS ==
    [model \in {"claude-opus-4-5", "claude-sonnet-4", "claude-haiku-3-5",
                "default"} |-> 200000]

\* thresholds of class SessionMonitor, the two fractions in hundredths
WARNING_THRESHOLD == 70
CRITICAL_THRESHOLD == 90
SIZE_WARNING_KB == 2000
SIZE_CRITICAL_KB == 10000
GROWTH_RATE_WARN == 500
INJECTION_WARNING == 10
INJECTION_CRITICAL == 50
NESTED_INJECTION_WARNING == 1

SessionFile(size, content) ==
    [state |-> "file", size |-> size, content |-> content]
UnreadableSession(size) == [state |-> "unreadable", size |-> size]

\* a directory that exists, with the file of each name in it
Directory(entries) == [state |-> "directory", entries |-> entries]

\* session_file.stem
stem(session_file) == SubSeq(session_file, 1, Len(session_file) - 1)

\* Pieces of message text: the two markers the unit tests write, the phrase
\* that ends an injection block, and Filler for a run of 201 characters
\* without a newline; any other piece is one character.
Markers == {"[INJECTION-DEPTH:1]", "[INJECTION-DEPTH:2]"}
Recovered == "Recovered Conversation Context"
Filler == "x * 201"

\* the number of characters of the pieces i..j of content
RECURSIVE len(_, _, _)
len(content, i, j) ==
    IF i > j
    THEN 0
    ELSE len(content, i + 1, j)
         + (CASE content[i] \in Markers -> 19
              [] content[i] = Recovered -> 30
              [] content[i] = Filler -> 201
              [] OTHER -> 1)

\* len(re.findall(pattern, content)), counted from piece i on, for the
\* pattern \[INJECTION-DEPTH:[^\]]*\].{0,200}Recovered Conversation Context.
\* It matches the pieces i..j when they are a marker, at most 200
\* characters none of which is a newline, and the phrase.  Matches are
\* found left to right and do not overlap, and .{0,200} is greedy, so that
\* a match ends with the last phrase it can reach.
RECURSIVE findall(_, _)
findall(content, i) ==
    IF i > Len(content)
    THEN 0
    ELSE LET ends == {j \in (i + 1)..Len(content) :
                        /\ content[i] \in Markers
                        /\ content[j] = Recovered
                        /\ \A k \in (i + 1)..(j - 1) : content[k] # "\n"
                        /\ len(content, i + 1, j - 1) <= 200}
         IN  IF ends = {}
             THEN findall(content, i + 1)
             ELSE 1 + findall(content,
                              1 + CHOOSE j \in ends : \A k \in ends : k <= j)

\* The body of the loop over the lines of the session file, acc holding
\* the three counts, the model and the exception that has ended the loop.
\* json.JSONDecodeError skips the line; any other exception (entry.get or
\* msg.get on a value that is not a dict) leaves the loop through "except
\* Exception: pass" with the counts reached.
scan_line(line, acc) ==
    LET parsed == json_loads(line)
        entry == parsed.value
        msg == Get(entry, "message", EmptyDict)
        counted == [acc EXCEPT !.message_count = @ + 1,
                               !.model = Get(entry, "model", @)]
        blocks == IF Get(msg, "role", None) = "user"
                  THEN findall(Get(msg, "content", <<>>), 1)
                  ELSE 0
    IN  IF parsed.raised = "JSONDecodeError"
        THEN acc
        ELSE IF ~IsDict(entry)
             THEN [acc EXCEPT !.raised = "AttributeError"]
             ELSE IF Get(entry, "type", None) # "message"
                  THEN acc
                  ELSE IF ~IsDict(msg)
                       THEN [counted EXCEPT !.raised = "AttributeError"]
                       ELSE [counted EXCEPT !.injection_count = @ + blocks,
                                            !.max_nested = Max(@, blocks)]

\* "for line in f" over the lines first..last, in order (the first half,
\* then the second), until an exception ends the loop
RECURSIVE scan_session(_, _, _, _)
scan_session(lines, first, last, acc) ==
    IF first > last \/ acc.raised # None
    THEN acc
    ELSE IF first = last
         THEN scan_line(lines[first], acc)
         ELSE scan_session(lines, (first + last) \div 2 + 1, last,
                  scan_session(lines, first, (first + last) \div 2, acc))

(***************************************************************************)
(* Floats.  The growth rate is computed in Python floats (IEEE doubles),   *)
(* and a quotient is rounded to 53 bits at each division.  A float is held *)
(* here as sign, mantissa and exponent: its value is                       *)
(* (-1)^sign * (hi * 2^27 + lo) * 2^exp with lo < 2^27 and, unless it is   *)
(* 0, 2^25 <= hi < 2^26, so that the mantissa has 53 bits.  The two halves *)
(* keep every intermediate value below 2^31.                               *)
(***************************************************************************)
\* F(x), with x evaluated once however often F uses it
once(x, F(_)) == CHOOSE y \in {F(v) : v \in {x}} : TRUE

\* the place of the leading bit of a > 0
RECURSIVE bit_length(_)
bit_length(a) ==
    IF a < 2 THEN 0 ELSE once(a \div 2, LAMBDA half : 1 + bit_length(half))

\* float(n) of an int n, |n| < 2^26: exact
float(n) ==
    LET normal(sign, a, top) ==
            [sign |-> sign, hi |-> a * 2 ^ (25 - top), lo |-> 0,
             exp |-> top - 52]
    IN  IF n = 0
        THEN [sign |-> 0, hi |-> 0, lo |-> 0, exp |-> 0]
        ELSE IF n < 0
             THEN normal(1, 0 - n, bit_length(0 - n))
             ELSE normal(0, n, bit_length(n))

\* mantissas, as numbers of two halves: a >= b and a - b
geq(a, b) == a.hi > b.hi \/ (a.hi = b.hi /\ a.lo >= b.lo)

minus(a, b) ==
    IF a.lo >= b.lo
    THEN [hi |-> a.hi - b.hi, lo |-> a.lo - b.lo]
    ELSE [hi |-> a.hi - b.hi - 1, lo |-> a.lo + 2 ^ 27 - b.lo]

\* 16 * a, and q * a for q < 16
times16(a) ==
    [hi |-> a.hi * 16 + a.lo \div 2 ^ 23, lo |-> (a.lo % 2 ^ 23) * 16]

times(q, a) ==
    [hi |-> q * a.hi + (q * a.lo) \div 2 ^ 27, lo |-> (q * a.lo) % 2 ^ 27]

\* One step of the long division by divisor, from a remainder below it:
\* four more bits of the quotient and the remainder below divisor that is
\* left.  The digit is the quotient of the upper halves, 15 at most, or
\* one less.
digit_step(st, divisor) ==
    LET digit(rem, guess) ==
            IF geq(rem, times(guess, divisor)) THEN guess ELSE guess - 1
        next(rem, quo, d) ==
            [rem |-> minus(rem, times(d, divisor)),
             quo |-> [hi |-> quo.hi, lo |-> quo.lo + d]]
    IN  once(times16(st.rem), LAMBDA rem :
            once(digit(rem, IF rem.hi \div divisor.hi > 15
                            THEN 15
                            ELSE rem.hi \div divisor.hi),
                 LAMBDA d : next(rem, times16(st.quo), d)))

\* n steps
RECURSIVE long_division(_, _, _)
long_division(st, divisor, n) ==
    IF n = 0
    THEN st
    ELSE once(digit_step(st, divisor),
              LAMBDA next : long_division(next, divisor, n - 1))

\* x / y of two floats that are not 0, first saying that the mantissa of
\* x is not below that of y.  The quotient of the mantissas is between 1/2
\* and 2: it is taken to 56 bits after the binary point, which is extra =
\* 3 or 4 bits more than the 53 kept; the first of these and whether
\* anything follows it decide the rounding, to nearest and to even on a
\* tie.
divide(x, y, first) ==
    LET extra == IF first THEN 4 ELSE 3
        shift(quo) ==
            [hi |-> quo.hi \div 2 ^ extra,
             lo |-> (quo.hi % 2 ^ extra) * 2 ^ (27 - extra)
                    + quo.lo \div 2 ^ extra]
        round_up(quo, rem) ==
            /\ (quo.lo \div 2 ^ (extra - 1)) % 2 = 1
            /\ \/ quo.lo % 2 ^ (extra - 1) # 0
               \/ rem # [hi |-> 0, lo |-> 0]
               \/ (quo.lo \div 2 ^ extra) % 2 = 1
        increment(man) ==
            IF man.lo + 1 < 2 ^ 27
            THEN [hi |-> man.hi, lo |-> man.lo + 1]
            ELSE [hi |-> man.hi + 1, lo |-> 0]
        normal(man, e) ==
            IF man.hi = 2 ^ 26
            THEN [sign |-> (x.sign + y.sign) % 2, hi |-> 2 ^ 25, lo |-> 0,
                  exp |-> e + 1]
            ELSE [sign |-> (x.sign + y.sign) % 2, hi |-> man.hi,
                  lo |-> man.lo, exp |-> e]
        start == [rem |-> IF first
                          THEN minus(x, y)
                          ELSE [hi |-> x.hi, lo |-> x.lo],
                  quo |-> [hi |-> 0, lo |-> IF first THEN 1 ELSE 0]]
    IN  once(long_division(start, y, 14), LAMBDA done :
            once(IF round_up(done.quo, done.rem)
                 THEN increment(shift(done.quo))
                 ELSE shift(done.quo),
                 LAMBDA man : normal(man, x.exp - y.exp - 52
                                          - (IF first THEN 0 ELSE 1))))

\* x / y in floats, y not 0
truediv(x, y) ==
    once(<<x, y>>, LAMBDA xy :
        IF xy[1].hi = 0
        THEN float(0)
        ELSE divide(xy[1], xy[2], geq(xy[1], xy[2])))

\* x < y in floats
lt(x, y) ==
    LET below(u, v) ==
            /\ v.hi # 0
            /\ \/ u.hi = 0
               \/ u.exp < v.exp
               \/ u.exp = v.exp /\ ~geq(u, v)
    IN  once(<<x, y>>, LAMBDA xy :
            CASE xy[1].sign = 0 /\ xy[2].sign = 0 -> below(xy[1], xy[2])
              [] xy[1].sign = 1 /\ xy[2].sign = 1 -> below(xy[2], xy[1])
              [] xy[1].sign = 1 /\ xy[2].sign = 0 ->
                     xy[1].hi # 0 \/ xy[2].hi # 0
              [] OTHER -> FALSE)

\* the literal 0.1: the float nearest to 1/10
one_tenth == truediv(float(1), float(10))

\* Variant: the sample just taken replaces the history.
_calculate_growth_rate_forgetful(history_of, session_id, current_size_kb, now) ==
    [size_history |-> (session_id :> <<<<now, current_size_kb>>>>) @@ history_of,
     rate |-> float(0)]

\* Variant: the rate is not clamped at 0.
_calculate_growth_rate_unclamped(history_of, session_id, current_size_kb, now) ==
    LET cutoff == now - 300
        rate(oldest, newest) ==
            once(truediv(float(newest[1] - oldest[1]), float(60)),
                 LAMBDA time_diff :
                     IF lt(time_diff, one_tenth)
                     THEN float(0)
                     ELSE truediv(float(newest[2] - oldest[2]), time_diff))
    IN  once(SelectSeq(Append(Get(history_of, session_id, <<>>),
                              <<now, current_size_kb>>),
                       LAMBDA sample : sample[1] > cutoff),
             LAMBDA history :
                 [size_history |-> (session_id :> history) @@ history_of,
                  rate |-> IF Len(history) < 2
                           THEN float(0)
                           ELSE rate(history[1], history[Len(history)])])

\* Variant: nothing is dropped from the history.
_calculate_growth_rate_unpruned(history_of, session_id, current_size_kb, now) ==
    LET rate(oldest, newest) ==
            once(truediv(float(newest[1] - oldest[1]), float(60)),
                 LAMBDA time_diff :
                     IF lt(time_diff, one_tenth)
                     THEN float(0)
                     ELSE once(truediv(float(newest[2] - oldest[2]),
                                       time_diff),
                               LAMBDA quotient : IF lt(float(0), quotient)
                                                 THEN quotient
                                                 ELSE float(0)))
    IN  once(Append(Get(history_of, session_id, <<>>),
                    <<now, current_size_kb>>),
             LAMBDA history :
                 [size_history |-> (session_id :> history) @@ history_of,
                  rate |-> IF Len(history) < 2
                           THEN float(0)
                           ELSE rate(history[1], history[Len(history)])])

\* _calculate_growth_rate(session_id, current_size_kb) with size_history =
\* history_of and datetime.now().timestamp() = now, in whole seconds: the
\* new size_history and the rate returned, in KB per minute.  history is
\* the list left after the append and the pruning, and rate the result for
\* its first and last samples, oldest and newest, when it has two samples
\* or more: the difference of two times is exact, time_diff and the
\* quotient size_diff / time_diff are rounded, the literal 0.1 is the float
\* nearest to 1/10, and max(0, quotient) is the quotient when that is above
\* 0.
_calculate_growth_rate(history_of, session_id, current_size_kb, now) ==
    LET cutoff == now - 300
        rate(oldest, newest) ==
            once(truediv(float(newest[1] - oldest[1]), float(60)),
                 LAMBDA time_diff :
                     IF lt(time_diff, one_tenth)
                     THEN float(0)
                     ELSE once(truediv(float(newest[2] - oldest[2]),
                                       time_diff),
                               LAMBDA quotient : IF lt(float(0), quotient)
                                                 THEN quotient
                                                 ELSE float(0)))
    IN  once(SelectSeq(Append(Get(history_of, session_id, <<>>),
                              <<now, current_size_kb>>),
                       LAMBDA sample : sample[1] > cutoff),
             LAMBDA history :
                 [size_history |-> (session_id :> history) @@ history_of,
                  rate |-> IF Len(history) < 2
                           THEN float(0)
                           ELSE rate(history[1], history[Len(history)])])

\* format(rate, '.0f') of a rate that is not negative and below 2^31: the
\* nearest integer to the value of the float, the even one of two.  The
\* last -exp bits of the mantissa come after the binary point.
round_0f(rate) ==
    LET k == 0 - rate.exp
        whole == IF k >= 27
                 THEN rate.hi \div 2 ^ (k - 27)
                 ELSE rate.hi * 2 ^ (27 - k) + rate.lo \div 2 ^ k
        rest == IF k >= 27
                THEN [hi |-> rate.hi % 2 ^ (k - 27), lo |-> rate.lo]
                ELSE [hi |-> 0, lo |-> rate.lo % 2 ^ k]
        tie == IF k >= 28
               THEN [hi |-> 2 ^ (k - 28), lo |-> 0]
               ELSE [hi |-> 0, lo |-> 2 ^ (k - 1)]
    IN  ToString(IF rate.hi = 0 \/ k > 53
                 THEN 0
                 ELSE IF rest = tie
                      THEN whole + (whole % 2)
                      ELSE IF geq(rest, tie) THEN whole + 1 ELSE whole)

\* "Determine status": the first rule that holds gives the status and the
\* recommendation
determine_status(max_nested, file_size_kb, injection_count, context_utilization, growth_rate) ==
    IF max_nested > NESTED_INJECTION_WARNING
    THEN [status |-> "CRITICAL",
          recommendation |-> "Nested injection blocks detected ("
              \o ToString(max_nested) \o ") - possible feedback loop"]
    ELSE IF file_size_kb > SIZE_CRITICAL_KB
    THEN [status |-> "CRITICAL",
          recommendation |->
              "Session exceeds size limit - archive immediately"]
    ELSE IF injection_count > INJECTION_CRITICAL
    THEN [status |-> "CRITICAL",
          recommendation |-> "High injection count ("
              \o ToString(injection_count) \o ") - possible bloat"]
    ELSE IF context_utilization.num * 100
            > CRITICAL_THRESHOLD * context_utilization.den
    THEN [status |-> "CRITICAL",
          recommendation |-> "Context window nearly full - archive soon"]
    ELSE IF file_size_kb > SIZE_WARNING_KB
    THEN [status |-> "WARNING",
          recommendation |-> "Session growing large - monitor closely"]
    ELSE IF injection_count > INJECTION_WARNING
    THEN [status |-> "WARNING",
          recommendation |-> "Elevated injection count ("
              \o ToString(injection_count) \o ")"]
    ELSE IF context_utilization.num * 100
            > WARNING_THRESHOLD * context_utilization.den
    THEN [status |-> "WARNING",
          recommendation |-> "Context utilization elevated"]
    ELSE IF lt(float(GROWTH_RATE_WARN), growth_rate)
    THEN [status |-> "WARNING",
          recommendation |-> "Rapid growth detected ("
              \o round_0f(growth_rate) \o " KB/min)"]
    ELSE [status |-> "HEALTHY", recommendation |-> "Session is healthy"]

\* analyze_session(session_file) where the path names file, with
\* size_history = history_of and the clock at now: what it raises, or the
\* SessionHealth it returns and the size_history it leaves.  stat() raises
\* for a file that is not there; a failure of open() is passed over and
\* leaves the counts at 0.
analyze_session(history_of, session_file, file, now) ==
    LET session_id == stem(session_file)
        file_size == file.size
        file_size_kb == file_size \div 1024
        estimated_tokens == file_size \div 4
        start == [injection_count |-> 0, max_nested |-> 0,
                  message_count |-> 0, model |-> "default",
                  raised |-> None]
        context_limit(model) ==
            Get(MODEL_CONTEXT_LIMITS, model, MODEL_CONTEXT_LIMITS["default"])
    IN  IF file = MissingFile
        THEN Raise("FileNotFoundError")
        ELSE once(IF file.state = "unreadable"
                  THEN start
                  ELSE scan_session(file.content, 1, Len(file.content),
                                    start),
             LAMBDA parsed :
             once(Fraction(estimated_tokens, context_limit(parsed.model)),
             LAMBDA context_utilization :
             once(_calculate_growth_rate(history_of, session_id,
                                         file_size_kb, now),
             LAMBDA growth :
             once(determine_status(parsed.max_nested, file_size_kb,
                                   parsed.injection_count,
                                   context_utilization, growth.rate),
             LAMBDA verdict :
                 [raised |-> None,
                  value |-> [session_id             |-> session_id,
                             file_path              |-> session_file,
                             file_size_bytes        |-> file_size,
                             file_size_kb           |-> file_size_kb,
                             estimated_tokens       |-> estimated_tokens,
                             context_utilization    |-> context_utilization,
                             injection_count        |-> parsed.injection_count,
                             max_nested_injections  |-> parsed.max_nested,
                             message_count          |-> parsed.message_count,
                             growth_rate_kb_per_min |-> growth.rate,
                             status                 |-> verdict.status,
                             recommendation         |-> verdict.recommendation],
                  size_history |-> growth.size_history]))))

\* Variant: the scan ends at the first session whose analysis raises.
RECURSIVE get_all_sessions_aborting(_, _, _, _, _)
get_all_sessions_aborting(history_of, dir, paths, now, found) ==
    LET f == Head(paths)
    IN  IF ~Exists(dir) \/ paths = <<>>
        THEN [value |-> found, size_history |-> history_of]
        ELSE IF \/ f[Len(f)] # "jsonl"
                \/ \E i \in 2..(Len(f) - 1) : f[i] = "archived"
             THEN get_all_sessions_aborting(history_of, dir, Tail(paths),
                                            now, found)
             ELSE once(analyze_session(history_of, f, dir.entries[f], now),
                       LAMBDA r :
                           IF r.raised # None
                           THEN [value |-> found, size_history |-> history_of]
                           ELSE get_all_sessions_aborting(r.size_history,
                                    dir, Tail(paths), now,
                                    Append(found, r.value)))

\* get_all_sessions() over the directory dir, whose entries the system
\* lists in the order paths: glob('*.jsonl') keeps the names that end in
\* .jsonl (which sessions.json does not), names holding '.archived.' are
\* passed over, and so is a session whose analysis raises.  found holds
\* the results so far.
RECURSIVE get_all_sessions(_, _, _, _, _)
get_all_sessions(history_of, dir, paths, now, found) ==
    LET f == Head(paths)
    IN  IF ~Exists(dir) \/ paths = <<>>
        THEN [value |-> found, size_history |-> history_of]
        ELSE IF \/ f[Len(f)] # "jsonl"
                \/ \E i \in 2..(Len(f) - 1) : f[i] = "archived"
             THEN get_all_sessions(history_of, dir, Tail(paths), now, found)
             ELSE once(analyze_session(history_of, f, dir.entries[f], now),
                       LAMBDA r :
                           IF r.raised # None
                           THEN get_all_sessions(history_of, dir, Tail(paths),
                                                 now, found)
                           ELSE get_all_sessions(r.size_history, dir,
                                    Tail(paths), now, Append(found, r.value)))

\* get_alerts(), from the result of its get_all_sessions() call
get_alerts(all_sessions) ==
    SelectSeq(all_sessions, LAMBDA s : s.status # "HEALTHY")

\* the session monitor is not part of the specification
MonitorNotInUse ==
    /\ sessionsDir = MissingFile
    /\ clock = 0
    /\ size_history = EmptyDict
    /\ health = NoCall
    /\ sessions = NoCall
    /\ analyses = 0

\* no Cost object is built apart from those of calculate
CostObjectNotInUse ==
    /\ costKwargs = NoCall
    /\ costObj = NoCall

(***************************************************************************)
(* Inputs of calculate                                                     *)
(***************************************************************************)
Counts == {0} \cup {TokenStep * 2^k : k \in 0..MaxDoublings}

UsageKeys == {"input_tokens", "output_tokens", "cache_read_input_tokens",
              "cache_creation_input_tokens"}

\* usage dicts: all four counts, input and output only, or empty
UsageDicts ==
    [UsageKeys -> Counts]
    \cup [{"input_tokens", "output_tokens"} -> Counts]
    \cup {EmptyDict}

ModelIds == {HAIKU, SONNET, OPUS, UNKNOWN_MODEL}

\* response dicts: "model" and "usage" may each be absent
Responses ==
    {[model |-> m, usage |-> u] : m \in ModelIds, u \in UsageDicts}
    \cup {[usage |-> u] : u \in UsageDicts}
    \cup {[model |-> m] : m \in ModelIds}

\* The counts and model a response stands for, defaults filled in.
ModelOf(resp) == Get(resp, "model", SONNET)
CountOf(resp, k) == Get(Get(resp, "usage", EmptyDict), k, 0)

\* b is a with the count k raised and nothing else changed
RaisedOnly(k, a, b) ==
    /\ ModelOf(a) = ModelOf(b)
    /\ CountOf(b, k) > CountOf(a, k)
    /\ \A j \in UsageKeys \ {k} : CountOf(b, j) = CountOf(a, j)

\* b is a sent to another model
OtherModel(a, b) ==
    /\ ModelOf(a) # ModelOf(b)
    /\ \A j \in UsageKeys : CountOf(b, j) = CountOf(a, j)

\* The response a with the count k set to c / sent to the model m.
WithCount(a, k, c) ==
    ("usage" :> ((k :> c) @@ Get(a, "usage", EmptyDict))) @@ a

WithModel(a, m) == ("model" :> m) @@ a

(***************************************************************************)
(* Specification SpecCost: an estimator answering calculate calls.  The    *)
(* first response is drawn in Init; each later call is a variation of the  *)
(* call before it (one count raised, or another model), which the history  *)
(* variables keep for comparison.                                          *)
(***************************************************************************)
InitCost ==
    /\ \E file \in {MissingFile, JsonFile(FilePricing)} :
           /\ pricingFile = file
           /\ pricing = _load_pricing(file).value
    /\ estPc = "ready"
    /\ costsDir = TRUE
    /\ response \in Responses
    /\ cost = NoCall
    /\ prevResponse = NoCall
    /\ prevCost = NoCall
    /\ TierNotInUse
    /\ LogNotInUse
    /\ MonitorNotInUse
    /\ CostObjectNotInUse

Calculate ==
    /\ cost = NoCall
    /\ cost' = calculate(pricing, response, 0)
    /\ UNCHANGED <<monVars, objVars, pricing, response, prevResponse, prevCost, loadVars, logVars, sumVars, tierVars>>

CalculateRaised(k, c) ==
    /\ cost # NoCall
    /\ c > CountOf(response, k)
    /\ response' = WithCount(response, k, c)
    /\ cost' = calculate(pricing, response', 0)
    /\ prevResponse' = response
    /\ prevCost' = cost
    /\ UNCHANGED <<monVars, objVars, pricing, loadVars, logVars, sumVars, tierVars>>

CalculateOtherModel(m) ==
    /\ cost # NoCall
    /\ m # ModelOf(response)
    /\ response' = WithModel(response, m)
    /\ cost' = calculate(pricing, response', 0)
    /\ prevResponse' = response
    /\ prevCost' = cost
    /\ UNCHANGED <<monVars, objVars, pricing, loadVars, logVars, sumVars, tierVars>>

NextCost ==
    \/ Calculate
    \/ \E k \in UsageKeys, c \in Counts : CalculateRaised(k, c)
    \/ \E m \in ModelIds : CalculateOtherModel(m)

SpecCost == InitCost /\ [][NextCost]_vars

(***************************************************************************)
(* Specification SpecLog: estimator processes recording costs into the     *)
(* same costs directory.  A record call is two steps of its process: the   *)
(* first ends with the line in the buffer of the open file, the second     *)
(* closes the file, which writes the line out.                             *)
(***************************************************************************)
SessionOf(w) == ToString(w)

LogResponses ==
    {[model |-> SONNET,
      usage |-> [input_tokens |-> TokenStep, output_tokens |-> TokenStep]],
     [usage |-> [input_tokens |-> 2 * TokenStep,
                 cache_read_input_tokens |-> TokenStep]]}

InitLog ==
    /\ pricingFile = MissingFile
    /\ pricing = DefaultPricing
    /\ estPc = "ready"
    /\ costsDir = TRUE
    /\ response = NoCall
    /\ cost = NoCall
    /\ prevResponse = NoCall
    /\ prevCost = NoCall
    /\ TierNotInUse
    /\ LogNotInUse
    /\ MonitorNotInUse
    /\ CostObjectNotInUse

\* a record call puts an end to what the summary variables stand for
ForgetSummaries ==
    /\ summary' = NoCall
    /\ prevSummary' = NoCall
    /\ savings' = NoCall

\* record, up to and including f.write(json.dumps(record) + '\n'): the
\* file is open and the line is in the file object's buffer
RecordOpenWrite(w, resp) ==
    /\ writers[w].pc = "idle"
    /\ started < MaxCalls
    /\ started' = started + 1
    /\ files' = open_append(files, today)
    /\ LET record == record_dict(calculate(pricing, resp, today),
                                 SessionOf(w))
       IN  writers' = [writers EXCEPT ![w] =
               [pc     |-> "written",
                day    |-> today,
                offset |-> Len(files'[today]),
                buffer |-> f_write(<<>>, record),
                record |-> record]]
    /\ ForgetSummaries
    /\ UNCHANGED <<monVars, objVars, costVars, loadVars, today, recorded, tierVars>>

\* the end of the with block: close, and return
RecordClose(w) ==
    /\ writers[w].pc = "written"
    /\ LET h == writers[w]
       IN  /\ files' = [files EXCEPT ![h.day] =
                            flush_append(@, h.offset, h.buffer)]
           /\ recorded' = [recorded EXCEPT ![h.day] = Append(@, h.record)]
    /\ writers' = [writers EXCEPT ![w] = Idle]
    /\ ForgetSummaries
    /\ UNCHANGED <<monVars, objVars, costVars, loadVars, today, started, tierVars>>

\* midnight
NextDay ==
    /\ today < MaxDay
    /\ today' = today + 1
    /\ UNCHANGED <<monVars, objVars, costVars, loadVars, files, writers, started, recorded,
                   sumVars, tierVars>>

NextLog ==
    \/ \E w \in Writers, resp \in LogResponses : RecordOpenWrite(w, resp)
    \/ \E w \in Writers : RecordClose(w)
    \/ NextDay

SpecLog == InitLog /\ [][NextLog]_vars

(***************************************************************************)
(* Specification SpecSummary: estimator processes recording into, and      *)
(* summarising, a costs directory whose file of the day may hold lines     *)
(* that record did not write.                                              *)
(***************************************************************************)
\* A line as the unit tests write it, with the key 'total_cost'.
OldRecord == [timestamp |-> 0, model |-> SONNET, total_cost |-> 5000000]

\* What the file of day 0 holds at the start, when there is one: a line
\* that is not JSON, a JSON list, or an old record and a blank line.
SeedContents ==
    {<<TextCell, Newline>>,
     <<ListCell, Newline>>,
     json_dumps(OldRecord) \o <<Newline, Newline>>}

\* the estimator processes that record; any process may summarise
Recorders == {1, 2}

InitSummary ==
    /\ pricingFile = MissingFile
    /\ pricing = DefaultPricing
    /\ estPc = "ready"
    /\ costsDir = TRUE
    /\ response = NoCall
    /\ cost = NoCall
    /\ prevResponse = NoCall
    /\ prevCost = NoCall
    /\ TierNotInUse
    /\ MonitorNotInUse
    /\ CostObjectNotInUse
    /\ today = 0
    /\ files \in {EmptyDict} \cup {(0 :> c) : c \in SeedContents}
    /\ writers = [w \in Writers |-> Idle]
    /\ started = 0
    /\ recorded = [d \in Days |-> <<>>]
    /\ summary = NoCall
    /\ prevSummary = NoCall
    /\ savings = NoCall

\* get_daily_summary(day); a call that repeats the call before it is kept
\* with that call's result
GetDailySummary(day) ==
    /\ files' = after_summary(files, day)
    /\ summary' = [day |-> day, result |-> get_daily_summary(files, day)]
    /\ prevSummary' = IF summary # NoCall /\ summary.day = day
                      THEN summary
                      ELSE NoCall
    /\ savings' = NoCall
    /\ UNCHANGED <<monVars, objVars, costVars, loadVars, today, writers, started, recorded,
                   tierVars>>

\* estimate_savings(with_caching, with_tiering)
EstimateSavings(with_caching, with_tiering) ==
    /\ files' = after_summary(files, today)
    /\ savings' = [with_caching |-> with_caching,
                   with_tiering |-> with_tiering,
                   result |-> estimate_savings(files, today, with_caching,
                                               with_tiering)]
    /\ summary' = NoCall
    /\ prevSummary' = NoCall
    /\ UNCHANGED <<monVars, objVars, costVars, loadVars, today, writers, started, recorded,
                   tierVars>>

NextSummary ==
    \/ \E w \in Recorders, resp \in LogResponses : RecordOpenWrite(w, resp)
    \/ \E w \in Recorders : RecordClose(w)
    \/ \E day \in Days : GetDailySummary(day)
    \/ \E c, t \in BOOLEAN : EstimateSavings(c, t)

SpecSummary == InitSummary /\ [][NextSummary]_vars

(***************************************************************************)
(* Specification SpecLoad: construction of the estimator and of the tier   *)
(* classifier over the configuration files found on disk, and price        *)
(* resolution under the configuration loaded.                              *)
(***************************************************************************)
\* A pricing file whose alias "latest" names another alias, and whose sonnet
\* sheet is not the built-in one.
ChainedPricing ==
    [models  |-> (SONNET :> [input_per_million       |-> 400,
                             output_per_million      |-> 2000,
                             cache_read_per_million  |-> 40,
                             cache_write_per_million |-> 500]) @@
                 (OPUS   :> [input_per_million       |-> 1500,
                             output_per_million      |-> 7500,
                             cache_read_per_million  |-> 150,
                             cache_write_per_million |-> 1875]),
     aliases |-> ("opus" :> OPUS) @@ ("latest" :> "opus")]

\* A pricing file without a sonnet entry and without aliases.
HaikuOnlyPricing ==
    [models |-> (HAIKU :> [input_per_million       |-> 100,
                           output_per_million      |-> 500,
                           cache_read_per_million  |-> 10,
                           cache_write_per_million |-> 125])]

PricingFiles ==
    {MissingFile, UnreadableFile, UnparseableFile}
    \cup {JsonFile(c) : c \in {FilePricing, ChainedPricing, HaikuOnlyPricing}}

\* tier configuration files (the config_path argument)
TierConfigs == {EmptyDict, [enabled |-> FALSE], [defaultModel |-> "haiku"]}

ConfigPaths ==
    {NoPath, MissingFile, UnreadableFile, UnparseableFile}
    \cup {JsonFile(c) : c \in TierConfigs}

\* OCTO_HOME/config.json
OctoConfigs ==
    {[version |-> "1.0.0"],
     [version |-> "1.0.0",
      optimization |-> [promptCaching |-> [enabled |-> TRUE]]],
     [version |-> "1.0.0",
      optimization |-> [modelTiering |-> [enabled |-> FALSE]]]}

OctoConfigFiles ==
    {MissingFile, UnreadableFile, UnparseableFile}
    \cup {JsonFile(c) : c \in OctoConfigs}

LoadModelIds == {HAIKU, SONNET, OPUS, "opus", "latest", UNKNOWN_MODEL}

LoadUsage ==
    [input_tokens |-> 2 * TokenStep, output_tokens |-> TokenStep,
     cache_read_input_tokens |-> TokenStep,
     cache_creation_input_tokens |-> TokenStep]

LoadResponses ==
    {[model |-> m, usage |-> LoadUsage] : m \in LoadModelIds}
    \cup {[usage |-> LoadUsage]}

InitLoad ==
    /\ pricingFile \in PricingFiles
    /\ estPc = "new"
    /\ pricing = EmptyDict
    /\ costsDir \in BOOLEAN
    /\ response = NoCall
    /\ cost = NoCall
    /\ prevResponse = NoCall
    /\ prevCost = NoCall
    /\ configPath \in ConfigPaths
    /\ octoConfigFile \in OctoConfigFiles
    /\ tierPc = "new"
    /\ config = EmptyDict
    /\ patterns = NoCall
    /\ tierInput = NoCall
    /\ decision = NoCall
    /\ applied = NoCall
    /\ LogNotInUse
    /\ MonitorNotInUse
    /\ CostObjectNotInUse

\* CostEstimator.__init__
ConstructEstimator ==
    /\ estPc = "new"
    /\ LET loaded == _load_pricing(pricingFile)
       IN  IF loaded.raised # None
           THEN /\ estPc' = "raised"
                /\ UNCHANGED <<pricing, costsDir>>
           ELSE /\ estPc' = "ready"
                /\ pricing' = loaded.value
                /\ costsDir' = TRUE
    /\ UNCHANGED <<monVars, objVars, response, cost, prevResponse, prevCost, pricingFile,
                   configPath, octoConfigFile, tierPc, config, logVars,
                   sumVars, tierVars>>

\* ModelTier.__init__
ConstructTier ==
    /\ tierPc = "new"
    /\ LET loaded == _load_config(configPath, octoConfigFile)
       IN  IF loaded.raised # None
           THEN /\ tierPc' = "raised"
                /\ UNCHANGED <<config, patterns>>
           ELSE /\ tierPc' = "ready"
                /\ config' = loaded.value
                /\ patterns' = _compile_patterns(loaded.value)
    /\ UNCHANGED <<monVars, objVars, costVars, pricingFile, estPc, costsDir, configPath,
                   octoConfigFile, logVars, sumVars, tierInput, decision,
                   applied>>

\* calculate on the constructed estimator
CalculateLoaded(resp) ==
    /\ estPc = "ready"
    /\ response' = resp
    /\ cost' = calculate(pricing, resp, 0)
    /\ UNCHANGED <<monVars, objVars, pricing, prevResponse, prevCost, loadVars, logVars, sumVars, tierVars>>

NextLoad ==
    \/ ConstructEstimator
    \/ ConstructTier
    \/ \E resp \in LoadResponses : CalculateLoaded(resp)

SpecLoad == InitLoad /\ [][NextLoad]_vars

(***************************************************************************)
(* Specification SpecTier: a tier classifier constructed over its          *)
(* configuration, classifying messages and deciding whether the            *)
(* recommendation is to be applied.                                        *)
(***************************************************************************)
\* tier configurations: the defaults, tiering disabled, another default
\* tier, no haiku patterns, and pattern lists of its own
TierSettings ==
    {EmptyDict,
     [enabled |-> FALSE],
     [defaultModel |-> "haiku"],
     [enabled |-> TRUE, defaultModel |-> "opus"],
     [haikuPatterns |-> <<>>],
     [haikuPatterns  |-> <<DEFAULT_SONNET_PATTERNS[4]>>,
      sonnetPatterns |-> <<DEFAULT_HAIKU_PATTERNS[3],
                           DEFAULT_OPUS_PATTERNS[1]>>]}

\* the texts classified
TierTexts ==
    {<<"Yes", "please", "proceed">>,
     <<Blank, "Yes", Blank>>,
     <<"What", "is", "the", "plan">>,
     <<"which", "design", "for", "the", "api">>,
     <<"which", "list", "files">>,
     <<"which", "list", "files", "to", "refactor">>,
     <<"how", "many", "tests">>,
     <<"test", "that", "refactor">>,
     <<"open">>,
     <<"open", "the", "directory">>,
     <<"please", "use", "the", "grep", "tool">>,
     <<"design", "and", "implement", "the", "api">>,
     <<"compare", "the", "approach">>,
     <<"security", "review">>,
     <<"optimize", "the", "system">>,
     <<"debug", "the", "intermittent", "error">>,
     <<"fix", "this", "bug">>,
     <<"write", "two", "functions">>,
     <<"clean", "up">>,
     <<"explain", "the", "code">>,
     <<"run", "tests">>,
     <<"Tell", "me", "something", "interesting">>,
     <<>>}

\* conversations, as the unit tests pass them to classify
TierConversations ==
    {<<>>,
     <<[role |-> "user", content |-> <<"Yes", "please", "proceed">>]>>,
     <<[role |-> "user", content |-> <<"design", "the", "api">>],
       [role |-> "assistant", content |-> <<"fix", "this", "bug">>],
       [role |-> "user", content |-> <<"Yes">>]>>}

TierInputs ==
    {Str(t) : t \in TierTexts} \cup {List(c) : c \in TierConversations}

CurrentModels == {HAIKU, SONNET, OPUS, "opus", "Claude-Opus-4"}

\* min_confidence, in hundredths; 70 is the default
MinConfidences == {50, 70, 90}

InitTier ==
    /\ pricingFile = MissingFile
    /\ pricing = EmptyDict
    /\ estPc = "new"
    /\ costsDir = FALSE
    /\ response = NoCall
    /\ cost = NoCall
    /\ prevResponse = NoCall
    /\ prevCost = NoCall
    /\ configPath \in {NoPath} \cup {JsonFile(c) : c \in TierSettings}
    /\ octoConfigFile \in
           {MissingFile,
            JsonFile([optimization |-> [modelTiering |-> [enabled |-> FALSE]]])}
    /\ tierPc = "new"
    /\ config = EmptyDict
    /\ patterns = NoCall
    /\ tierInput = NoCall
    /\ decision = NoCall
    /\ applied = NoCall
    /\ LogNotInUse
    /\ MonitorNotInUse
    /\ CostObjectNotInUse

\* tier.classify(message)
Classify(m) ==
    /\ tierPc = "ready"
    /\ tierInput' = m
    /\ decision' = classify(config, patterns, m)
    /\ applied' = NoCall
    /\ UNCHANGED <<monVars, objVars, costVars, loadVars, logVars, sumVars, patterns>>

\* tier.should_tier(current_model, decision.recommended_model,
\* min_confidence) for the decision classify returned
ShouldTier(current_model, min_confidence) ==
    /\ tierPc = "ready"
    /\ decision # NoCall
    /\ decision.raised = None
    /\ applied' =
           [current_model     |-> current_model,
            recommended_model |-> decision.value.recommended_model,
            min_confidence    |-> min_confidence,
            result |-> should_tier(config, current_model,
                                   decision.value.recommended_model,
                                   min_confidence)]
    /\ UNCHANGED <<monVars, objVars, costVars, loadVars, logVars, sumVars, patterns, tierInput,
                   decision>>

NextTier ==
    \/ ConstructTier
    \/ \E m \in TierInputs : Classify(m)
    \/ \E c \in CurrentModels, f \in MinConfidences : ShouldTier(c, f)

SpecTier == InitTier /\ [][NextTier]_vars

(***************************************************************************)
(* Session files.  The content of a file is the sequence of its lines, a   *)
(* line the JSON text of one entry and a newline.                          *)
(* The size of a file counts all its bytes: those of the messages the      *)
(* pieces stand for and those of entries of other types, which the scan    *)
(* passes over, so that a content goes with any size from 8 KB on.         *)
(***************************************************************************)
S1 == <<"s1", "jsonl">>
S2 == <<"s2", "jsonl">>

Line(entry) == <<LBrace, entry, RBrace, Newline>>

Message(role, content) ==
    Line([type |-> "message",
          message |-> [role |-> role, content |-> content]])

Block == <<"[INJECTION-DEPTH:1]", " ", Recovered>>

SessionContents ==
    {\* a short conversation, with a header entry and a blank line
     <<Line([type |-> "session"]), Message("user", <<"h", "i">>), <<Newline>>,
       Line([type |-> "message", model |-> "claude-opus-4-5",
             message |-> [role |-> "assistant", content |-> Block]]),
       Line([type |-> "message"])>>,
     \* one message holding two blocks on one line / on two lines / a long
     \* way apart
     <<Message("user",
               <<"[INJECTION-DEPTH:2]", " ", Recovered, " ">> \o Block)>>,
     <<Message("user", Block \o <<"\n">> \o Block),
       Line([type |-> "message", model |-> "some-model",
             message |-> [role |-> "assistant"]])>>,
     <<Message("user", Block \o <<Filler>> \o Block)>>,
     \* a marker without a phrase in reach, and a phrase before its marker
     <<Message("user", <<"[INJECTION-DEPTH:1]", Filler, Recovered>>),
       Message("user", <<Recovered, " ", "[INJECTION-DEPTH:1]">>)>>,
     \* many messages of one block each
     [i \in 1..(INJECTION_WARNING + 1) |-> Message("user", Block)],
     [i \in 1..(INJECTION_CRITICAL + 1) |-> Message("user", Block)],
     \* lines that are no entry: text, a list; a message that is a list
     <<<<TextCell, Newline>>, Message("user", Block)>>,
     <<Message("user", Block), <<ListCell, Newline>>, Message("user", Block)>>,
     <<Line([type |-> "message", model |-> "claude-haiku-3-5",
             message |-> PyList]),
       Message("user", Block \o <<"\n">> \o Block)>>}

KB == 1024

SessionFiles ==
    {SessionFile(size * KB, content) :
        size \in {8, 183, 600, 800, 3072, 11264},
        content \in SessionContents}
    \cup {UnreadableSession(8 * KB), MissingFile}

\* seconds between two readings of the clock: of a scan, and of the
\* analyses of one session
Delays == {3, 299}

MonitorDelays == {3, 21, 301}

(***************************************************************************)
(* Specification SpecMonitor: a monitor analysing one session file, which  *)
(* is rewritten to another size between calls.                             *)
(***************************************************************************)
InitMonitor ==
    /\ pricingFile = MissingFile
    /\ pricing = DefaultPricing
    /\ estPc = "ready"
    /\ costsDir = TRUE
    /\ response = NoCall
    /\ cost = NoCall
    /\ prevResponse = NoCall
    /\ prevCost = NoCall
    /\ TierNotInUse
    /\ LogNotInUse
    /\ CostObjectNotInUse
    /\ \E file \in SessionFiles : sessionsDir = Directory(S1 :> file)
    /\ clock = 0
    /\ size_history = EmptyDict
    /\ health = NoCall
    /\ sessions = NoCall
    /\ analyses = 0

\* analyze_session(sessions_dir / session_file), delay seconds after the
\* latest reading of the clock
AnalyzeSession(session_file, delay) ==
    /\ analyses < MaxAnalyses
    /\ Exists(sessionsDir)
    /\ session_file \in DOMAIN sessionsDir.entries
    /\ analyses' = analyses + 1
    /\ clock' = clock + delay
    /\ LET r == analyze_session(size_history, session_file,
                                sessionsDir.entries[session_file], clock')
       IN  IF r.raised # None
           THEN /\ health' = [session_file |-> session_file, result |-> r]
                /\ UNCHANGED size_history
           ELSE /\ health' = [session_file |-> session_file,
                              result |-> Return(r.value)]
                /\ size_history' = r.size_history
    /\ sessions' = NoCall
    /\ UNCHANGED <<costVars, loadVars, logVars, sumVars, tierVars, objVars,
                   sessionsDir>>

\* the agent rewrites a session file of less than 600 KB after an
\* analysis: its size changes
RewriteSession(session_file, size) ==
    /\ health # NoCall
    /\ Exists(sessionsDir)
    /\ session_file \in DOMAIN sessionsDir.entries
    /\ Exists(sessionsDir.entries[session_file])
    /\ sessionsDir.entries[session_file].size < 600 * KB
    /\ sessionsDir.entries[session_file].size # size
    /\ sessionsDir' = [sessionsDir EXCEPT !.entries[session_file].size = size]
    /\ health' = NoCall
    /\ sessions' = NoCall
    /\ UNCHANGED <<costVars, loadVars, logVars, sumVars, tierVars, objVars,
                   clock, size_history, analyses>>

NextMonitor ==
    \/ \E delay \in MonitorDelays : AnalyzeSession(S1, delay)
    \/ \E size \in {8 * KB, 183 * KB} : RewriteSession(S1, size)

SpecMonitor == InitMonitor /\ [][NextMonitor]_vars

(***************************************************************************)
(* Specification SpecScan: a monitor over a sessions directory of two      *)
(* session files, an archived one and the index, scanning it and           *)
(* analysing single sessions.                                              *)
(***************************************************************************)
ScanDirs ==
    {Directory((S1 :> first) @@ (S2 :> second)
               @@ (<<"s1", "archived", "old", "jsonl">>
                      :> SessionFile(11264 * KB, <<>>))
               @@ (<<"sessions", "json">>
                      :> SessionFile(8 * KB, <<<<ListCell>>>>))) :
        first \in {SessionFile(8 * KB, <<Message("user", <<"h", "i">>)>>),
                   SessionFile(11264 * KB, <<>>)},
        second \in {SessionFile(8 * KB, <<Message("user", <<"h", "i">>)>>),
                    MissingFile,
                    UnreadableSession(3072 * KB),
                    SessionFile(8 * KB,
                        <<Message("user", Block \o <<"\n">> \o Block)>>)}}
    \cup {MissingFile}

\* orders in which the system lists the directory
ListOrders ==
    {<<S1, S2, <<"s1", "archived", "old", "jsonl">>, <<"sessions", "json">>>>,
     <<<<"sessions", "json">>, <<"s1", "archived", "old", "jsonl">>, S2, S1>>}

InitScan ==
    /\ pricingFile = MissingFile
    /\ pricing = DefaultPricing
    /\ estPc = "ready"
    /\ costsDir = TRUE
    /\ response = NoCall
    /\ cost = NoCall
    /\ prevResponse = NoCall
    /\ prevCost = NoCall
    /\ TierNotInUse
    /\ LogNotInUse
    /\ CostObjectNotInUse
    /\ sessionsDir \in ScanDirs
    /\ clock = 0
    /\ size_history = EmptyDict
    /\ health = NoCall
    /\ sessions = NoCall
    /\ analyses = 0

\* get_all_sessions(); every analysis of the scan reads the same time
GetAllSessions(paths, delay) ==
    /\ analyses < MaxAnalyses
    /\ analyses' = analyses + 1
    /\ clock' = clock + delay
    /\ LET r == get_all_sessions(size_history, sessionsDir, paths, clock',
                                 <<>>)
       IN  /\ sessions' = [call |-> "get_all_sessions", paths |-> paths,
                           all |-> r.value, result |-> Return(r.value)]
           /\ size_history' = r.size_history
    /\ health' = NoCall
    /\ UNCHANGED <<costVars, loadVars, logVars, sumVars, tierVars, objVars,
                   sessionsDir>>

\* get_alerts()
GetAlerts(paths, delay) ==
    /\ analyses < MaxAnalyses
    /\ analyses' = analyses + 1
    /\ clock' = clock + delay
    /\ LET r == get_all_sessions(size_history, sessionsDir, paths, clock',
                                 <<>>)
       IN  /\ sessions' = [call |-> "get_alerts", paths |-> paths,
                           all |-> r.value,
                           result |-> Return(get_alerts(r.value))]
           /\ size_history' = r.size_history
    /\ health' = NoCall
    /\ UNCHANGED <<costVars, loadVars, logVars, sumVars, tierVars, objVars,
                   sessionsDir>>

NextScan ==
    \/ \E f \in {S1, S2}, delay \in Delays : AnalyzeSession(f, delay)
    \/ \E paths \in ListOrders, delay \in Delays : GetAllSessions(paths, delay)
    \/ \E paths \in ListOrders, delay \in Delays : GetAlerts(paths, delay)

SpecScan == InitScan /\ [][NextScan]_vars

(***************************************************************************)
(* Properties of calculate (SpecCost)                                      *)
(***************************************************************************)
Called == cost # NoCall

\* the price sheet of the latest call's model
Sheet == _get_model_pricing(pricing, ModelOf(response))

InputTokens      == CountOf(response, "input_tokens")
OutputTokens     == CountOf(response, "output_tokens")
CacheReadTokens  == CountOf(response, "cache_read_input_tokens")
CacheWriteTokens == CountOf(response, "cache_creation_input_tokens")

\* the latest call is the call before it with the count k raised
Raised(k) == prevCost # NoCall /\ RaisedOnly(k, prevResponse, response)

\* C1: the input rate is charged on max(0, input_tokens - cache_read_tokens)
\* tokens: cache-read tokens are taken off, cache-write tokens are not, and
\* the charge is 0 when cache_read_tokens > input_tokens.
C1_BillableInput ==
    Called =>
        cost.cost.input_cost =
            Sheet.input_per_million *
                (IF CacheReadTokens > InputTokens
                 THEN 0
                 ELSE InputTokens - CacheReadTokens)

\* a call with cache-write tokens, and more cache-read than input tokens
C1_Witness ==
    /\ Called
    /\ InputTokens > 0
    /\ CacheWriteTokens > 0
    /\ CacheReadTokens > InputTokens
    /\ cost.cost.input_cost = 0

\* C2: with input_tokens 2000, cache_read_tokens 500 and cache_write_tokens
\* 500 the input rate is charged on exactly 1000 tokens.
C2_Charges1000 ==
    (/\ Called
     /\ InputTokens = 2000
     /\ CacheReadTokens = 500
     /\ CacheWriteTokens = 500)
    => cost.cost.input_cost = 1000 * Sheet.input_per_million

\* C3: total is the sum of the four components, and empty or all-zero usage
\* gives total 0.
C3_TotalIsSum ==
    Called =>
        /\ cost.cost.total = cost.cost.input_cost + cost.cost.output_cost
                             + cost.cost.cache_read_cost
                             + cost.cost.cache_write_cost
        /\ (\A k \in UsageKeys : CountOf(response, k) = 0)
               => cost.cost.total = 0

\* a call whose four components are all charged
C3_Witness ==
    /\ Called
    /\ cost.cost.input_cost > 0
    /\ cost.cost.output_cost > 0
    /\ cost.cost.cache_read_cost > 0
    /\ cost.cost.cache_write_cost > 0
    /\ cost.cost.total > cost.cost.input_cost + cost.cost.output_cost
                         + cost.cost.cache_read_cost

\* C4 as stated: raising any one of the four counts alone never lowers total.
C4_MonotoneInEachCount ==
    (\E k \in UsageKeys : Raised(k)) => cost.cost.total >= prevCost.cost.total

\* C4 amended: raising input_tokens, output_tokens or cache_write_tokens
\* alone never lowers total, and raising cache_read_tokens alone never lowers
\* it once cache_read_tokens has reached input_tokens.
C4_MonotoneAmended ==
    \A k \in UsageKeys :
        (/\ Raised(k)
         /\ k = "cache_read_input_tokens"
                => CountOf(prevResponse, k)
                       >= CountOf(prevResponse, "input_tokens"))
        => cost.cost.total >= prevCost.cost.total

\* cache_read_tokens raised from input_tokens upwards: total goes up
C4_Witness ==
    /\ Raised("cache_read_input_tokens")
    /\ InputTokens > 0
    /\ CountOf(prevResponse, "cache_read_input_tokens") >= InputTokens
    /\ cost.cost.total > prevCost.cost.total

\* C5: a call with cache_read_tokens in 1..input_tokens has a strictly lower
\* total than the same call without cache-read tokens.
C5_CacheReadLowersTotal ==
    (/\ Raised("cache_read_input_tokens")
     /\ CountOf(prevResponse, "cache_read_input_tokens") = 0
     /\ CacheReadTokens <= InputTokens)
    => cost.cost.total < prevCost.cost.total

\* {input 2000, output 500} followed by the same with 1000 cache-read tokens
C5_Witness ==
    /\ Raised("cache_read_input_tokens")
    /\ CountOf(prevResponse, "cache_read_input_tokens") = 0
    /\ InputTokens = 2000
    /\ OutputTokens = 500
    /\ CacheReadTokens = 1000
    /\ cost.cost.total < prevCost.cost.total

\* the latest call is the call before it sent to the model m instead of n
Switched(n, m) ==
    /\ prevCost # NoCall
    /\ OtherModel(prevResponse, response)
    /\ ModelOf(prevResponse) = n
    /\ ModelOf(response) = m

\* C6: for {input_tokens 1000, output_tokens 1000} the haiku total is below
\* the sonnet total, which is below the opus total.
C6_TierOrdering ==
    (/\ Called
     /\ InputTokens = 1000
     /\ OutputTokens = 1000
     /\ CacheReadTokens = 0
     /\ CacheWriteTokens = 0)
    => /\ Switched(HAIKU, SONNET) => prevCost.cost.total < cost.cost.total
       /\ Switched(SONNET, OPUS) => prevCost.cost.total < cost.cost.total

(***************************************************************************)
(* Properties of loading and price resolution (SpecLoad)                   *)
(***************************************************************************)
\* One flat alias lookup, written out for the configuration loaded.
FlatId(m) ==
    IF "aliases" \in DOMAIN pricing /\ m \in DOMAIN pricing.aliases
    THEN pricing.aliases[m]
    ELSE m

HasEntry(id) == "models" \in DOMAIN pricing /\ id \in DOMAIN pricing.models

\* what a breakdown is when the latest call is priced with the sheet sh
PricedWith(sh) ==
    /\ cost.cost.input_cost =
           (InputTokens - CacheReadTokens) * sh.input_per_million
    /\ cost.cost.output_cost = OutputTokens * sh.output_per_million
    /\ cost.cost.cache_read_cost = CacheReadTokens * sh.cache_read_per_million
    /\ cost.cost.cache_write_cost =
           CacheWriteTokens * sh.cache_write_per_million

\* C7 as stated: the alias is resolved by one flat lookup, and an id without
\* an entry is priced with the built-in sheet 3.00 / 15.00 / 0.30 / 3.75.
C7_UnknownPricedBuiltin ==
    Called =>
        LET id == FlatId(ModelOf(response))
        IN  /\ HasEntry(id) => PricedWith(pricing.models[id])
            /\ ~HasEntry(id) => PricedWith(BuiltinSheet)

\* C7 amended: the alias is resolved by one flat lookup; an id without an
\* entry is priced with the configuration's claude-sonnet-4-20250514 sheet
\* when it has one and with the built-in sheet otherwise.
C7_UnknownPricedSonnet ==
    Called =>
        LET id == FlatId(ModelOf(response))
        IN  /\ HasEntry(id) => PricedWith(pricing.models[id])
            /\ ~HasEntry(id) /\ HasEntry(SONNET)
                   => PricedWith(pricing.models[SONNET])
            /\ ~HasEntry(id) /\ ~HasEntry(SONNET) => PricedWith(BuiltinSheet)

\* the alias of an alias, priced with the configured sonnet sheet although
\* the configuration holds the sheet the chain ends in
C7_Witness ==
    /\ Called
    /\ pricing = ChainedPricing
    /\ ModelOf(response) = "latest"
    /\ FlatId("latest") = "opus"
    /\ PricedWith(ChainedPricing.models[SONNET])
    /\ cost.cost.total > 0

\* C8: no construction surfaces an error because of its configuration file:
\* a missing, unreadable or unparseable file gives the built-in defaults.
C8_SilentDefaults ==
    /\ estPc # "raised"
    /\ tierPc # "raised"
    /\ (estPc = "ready" /\ pricingFile.state # "json")
           => pricing = DefaultPricing
    /\ (/\ tierPc = "ready"
        /\ configPath.state # "json"
        /\ octoConfigFile.state # "json") => config = EmptyDict

(***************************************************************************)
(* Properties of the daily cost log (SpecLog)                              *)
(***************************************************************************)
\* the contents of the file of day d, empty when there is none
Content(fs, d) == IF d \in DOMAIN fs THEN fs[d] ELSE <<>>

\* the lines record writes for the records recs, one after the other
RECURSIVE LinesOf(_)
LinesOf(recs) ==
    IF recs = <<>>
    THEN <<>>
    ELSE <<LBrace, Head(recs), RBrace, Newline>> \o LinesOf(Tail(recs))

IsPrefix(a, b) == Len(a) <= Len(b) /\ SubSeq(b, 1, Len(a)) = a

\* every day's file is the lines of the calls that returned, in that order
FilesHoldRecorded == \A d \in Days : Content(files, d) = LinesOf(recorded[d])

\* no step changes or removes what a file holds
WrittenLinesKept ==
    \A d \in DOMAIN files :
        d \in DOMAIN files' /\ IsPrefix(files[d], files'[d])

\* C9: the daily log is append-only: a file holds one newline-terminated
\* JSON line per returned record call, in call order, and no record call
\* changes a line written earlier.
C9_AppendOnly == []FilesHoldRecorded /\ [][WrittenLinesKept]_vars

\* a file with the lines of two calls of one estimator, a third in progress
C9_Witness ==
    /\ Len(recorded[0]) = 2
    /\ recorded[0][1].session_id = recorded[0][2].session_id
    /\ Len(files[0]) = 8
    /\ \E w \in Writers : writers[w].pc = "written" /\ writers[w].day = 0

AllReturned == \A w \in Writers : writers[w].pc = "idle"

Occurrences(seq, x) == Cardinality({i \in 1..Len(seq) : seq[i] = x})

\* the lines of day d's file are complete and are the records of the calls
\* that returned for that day, each as often as it was recorded
WholeLines(d) ==
    LET lines == readlines(Content(files, d))
    IN  /\ Len(lines) = Len(recorded[d])
        /\ \A i \in 1..Len(lines) :
               /\ lines[i][Len(lines[i])] = Newline
               /\ json_loads(lines[i]).raised = None
               /\ Occurrences(recorded[d], json_loads(lines[i]).value)
                      = Cardinality({j \in 1..Len(lines) :
                                         lines[j] = lines[i]})

RECURSIVE LineCount(_)
LineCount(d) ==
    IF d < 0
    THEN 0
    ELSE Len(readlines(Content(files, d))) + LineCount(d - 1)

\* C10: under every interleaving of the record calls of several estimator
\* processes, once all calls have returned the files hold as many complete
\* lines as there were calls, each line one whole record.
C10_NoLostOrTornRecord ==
    AllReturned =>
        /\ \A d \in Days : WholeLines(d)
        /\ LineCount(MaxDay) = started

\* three processes have recorded into the same file, the third first
C10_Witness ==
    /\ AllReturned
    /\ started = 3
    /\ Len(readlines(Content(files, 0))) = 3
    /\ recorded[0][1].session_id = SessionOf(3)
    /\ recorded[0][2].session_id = SessionOf(1)
    /\ recorded[0][3].session_id = SessionOf(2)

(***************************************************************************)
(* Properties of get_daily_summary and estimate_savings (SpecSummary)      *)
(***************************************************************************)
\* the sum of the member k over the records recs
RECURSIVE SumOf(_, _)
SumOf(recs, k) ==
    IF recs = <<>> THEN 0 ELSE Head(recs)[k] + SumOf(Tail(recs), k)

\* the latest call was get_daily_summary, for a day whose file holds what
\* record wrote and nothing else
SummaryOfRecorded ==
    /\ summary # NoCall
    /\ Content(files, summary.day) = LinesOf(recorded[summary.day])

\* C11: the summary of a day whose file holds the lines of N record calls
\* has request count N, total_cost the sum of the N calculated totals, and
\* token sums equal to the sums of the recorded counts.
C11_SummaryIsFold ==
    SummaryOfRecorded =>
        LET recs == recorded[summary.day]
        IN  /\ summary.result.raised = None
            /\ summary.result.value.requests = Len(recs)
            /\ summary.result.value.total_cost = SumOf(recs, "total")
            /\ summary.result.value.input_tokens = SumOf(recs, "input_tokens")
            /\ summary.result.value.output_tokens
                   = SumOf(recs, "output_tokens")
            /\ summary.result.value.cache_read_tokens
                   = SumOf(recs, "cache_read_tokens")

\* the summary of three calls by two estimators, one of them with
\* cache-read tokens
C11_Witness ==
    /\ SummaryOfRecorded
    /\ summary.day = 0
    /\ Len(recorded[0]) = 3
    /\ recorded[0][1].session_id # recorded[0][3].session_id
    /\ summary.result.value.requests = 3
    /\ summary.result.value.total_cost > 0
    /\ summary.result.value.cache_read_tokens > 0

\* the lines of content that hold one JSON object each, parsed
ObjectsIn(content) ==
    LET parses(line) == /\ json_loads(line).raised = None
                        /\ IsDict(json_loads(line).value)
        lines == SelectSeq(readlines(content), parses)
    IN  [i \in 1..Len(lines) |-> json_loads(lines[i]).value]

RECURSIVE SumOfGet(_, _)
SumOfGet(recs, k) ==
    IF recs = <<>> THEN 0 ELSE Get(Head(recs), k, 0) + SumOfGet(Tail(recs), k)

\* C12: every line that is not one cost record is skipped on its own: the
\* scan does not abort, and the summary counts and sums exactly the lines
\* that are.
C12_MalformedSkipped ==
    summary # NoCall =>
        LET recs == ObjectsIn(Content(files, summary.day))
        IN  /\ summary.result.raised = None
            /\ summary.result.value.requests = Len(recs)
            /\ summary.result.value.total_cost = SumOfGet(recs, "total")
            /\ summary.result.value.input_tokens
                   = SumOfGet(recs, "input_tokens")

\* C13: get_daily_summary leaves the files as they are, and a call that
\* repeats the call before it, with no record call between the two,
\* returns the same summary.
C13_SummaryIdempotent ==
    /\ [](prevSummary # NoCall => summary = prevSummary)
    /\ [][summary' # NoCall => files' = files]_vars

\* the summary of a file of two records, taken twice
C13_Witness ==
    /\ prevSummary # NoCall
    /\ summary = prevSummary
    /\ summary.result.raised = None
    /\ summary.result.value.requests = 2
    /\ Len(Content(files, summary.day)) = 8

\* estimate_savings returned
Estimated == savings # NoCall /\ savings.result.raised = None

\* the factor stated for the flags of the latest call
Factor ==
    CASE savings.with_caching /\ savings.with_tiering   -> Fraction(182, 100)
      [] savings.with_caching /\ ~savings.with_tiering  -> Fraction(14, 10)
      [] ~savings.with_caching /\ savings.with_tiering  -> Fraction(13, 10)
      [] ~savings.with_caching /\ ~savings.with_tiering -> One

\* C14: the estimate without optimization is base_cost x 1.4 with caching,
\* x 1.3 with tiering, x 1.82 with both and x 1 with neither; savings is the
\* estimate minus base_cost; base_cost 0 gives the all-zero result.
C14_Multiplicative ==
    Estimated =>
        LET r == savings.result.value
        IN  IF r.base_cost = Zero
            THEN /\ r.estimated_without_octo = Zero
                 /\ r.savings = Zero
                 /\ r.savings_percent = Zero
            ELSE /\ r.estimated_without_octo = Times(r.base_cost, Factor)
                 /\ r.savings = Minus(r.estimated_without_octo, r.base_cost)

\* both flags set over a day of two records: the estimate is 1.82 times
\* the day's total
C14_Witness ==
    /\ Estimated
    /\ savings.with_caching /\ savings.with_tiering
    /\ Len(recorded[today]) = 2
    /\ savings.result.value.base_cost.num > 0
    /\ savings.result.value.estimated_without_octo.num * 50
           = savings.result.value.base_cost.num * 91
             * savings.result.value.estimated_without_octo.den
    /\ savings.result.value.savings.num > 0

\* lo <= x <= hi for a fraction x
Between(x, lo, hi) == lo * x.den <= x.num /\ x.num <= hi * x.den

\* C15: for a positive base cost savings_percent is between 25 and 40 with
\* caching only, between 35 and 50 with tiering only and between 50 and 75
\* with both.
C15_PercentRanges ==
    (Estimated /\ savings.result.value.base_cost.num > 0) =>
        LET pct == savings.result.value.savings_percent
        IN  /\ (savings.with_caching /\ ~savings.with_tiering)
                   => Between(pct, 25, 40)
            /\ (~savings.with_caching /\ savings.with_tiering)
                   => Between(pct, 35, 50)
            /\ (savings.with_caching /\ savings.with_tiering)
                   => Between(pct, 50, 75)

(***************************************************************************)
(* Properties of classify and should_tier (SpecTier)                       *)
(***************************************************************************)
\* classify returned a decision
Decided == decision # NoCall /\ decision.raised = None

\* some pattern of the instance's list for the group g is found in the
\* message of the latest call
GroupMatches(g) ==
    \E i \in 1..Len(patterns[g]) :
        search(patterns[g][i], strip(tierInput.str))

\* the configured default tier
DefaultTier ==
    IF "defaultModel" \in DOMAIN config THEN config.defaultModel ELSE "sonnet"

\* C16: the groups are tried in the order haiku, opus, sonnet and the first
\* group with a matching pattern decides the tier; a message matching no
\* pattern gets the configured default tier, sonnet unless overridden.
C16_FirstGroupDecides ==
    (decision # NoCall /\ IsStr(tierInput)) =>
        /\ decision.raised = None
        /\ LET tier == decision.value.recommended_model
           IN  /\ GroupMatches("haiku") => tier = "haiku"
               /\ (~GroupMatches("haiku") /\ GroupMatches("opus"))
                      => tier = "opus"
               /\ (/\ ~GroupMatches("haiku")
                   /\ ~GroupMatches("opus")
                   /\ GroupMatches("sonnet")) => tier = "sonnet"
               /\ (\A g \in {"haiku", "opus", "sonnet"} : ~GroupMatches(g))
                      => tier = DefaultTier

\* a message with a haiku pattern and an opus pattern, under the default
\* lists: haiku
C16_Witness ==
    /\ Decided
    /\ config = EmptyDict
    /\ tierInput = Str(<<"which", "design", "for", "the", "api">>)
    /\ GroupMatches("haiku")
    /\ GroupMatches("opus")
    /\ decision.value.recommended_model = "haiku"

\* C17: the confidence is fixed per outcome: 0.85 haiku, 0.80 opus, 0.90
\* sonnet by pattern, however many patterns matched, each above the 0.60 of
\* the default decision, which is at most 0.6.
C17_ConfidencePerClass ==
    Decided =>
        LET d == decision.value
        IN  IF d.patterns_matched = <<>>
            THEN d.confidence = 60
            ELSE /\ d.confidence > 60
                 /\ d.confidence =
                        CASE d.patterns_matched[1][1] = "haiku"  -> 85
                          [] d.patterns_matched[1][1] = "opus"   -> 80
                          [] d.patterns_matched[1][1] = "sonnet" -> 90

\* a haiku decision with two patterns matched
C17_Witness ==
    /\ Decided
    /\ Len(decision.value.patterns_matched) = 2
    /\ decision.value.recommended_model = "haiku"
    /\ decision.value.confidence = 85

\* the text of the last user-authored message of a conversation, empty
\* when there is none
LastUserText(items) ==
    LET users == SelectSeq(items, LAMBDA item : item.role = "user")
    IN  IF users = <<>> THEN <<>> ELSE users[Len(users)].content

\* C18: given a list of messages classify decides as it does for the text
\* of the last user message, and an empty list gets the default decision,
\* sonnet.
C18_LastUserMessage ==
    (decision # NoCall /\ ~IsStr(tierInput)) =>
        /\ decision.raised = None
        /\ decision
               = classify(config, patterns, Str(LastUserText(tierInput.list)))
        /\ tierInput.list = <<>>
               => decision.value.recommended_model = "sonnet"

\* a top-tier model: its id holds 'opus', in whatever case
TopTier(model) == model \in {OPUS, "opus", "Claude-Opus-4"}

\* C19: should_tier never authorizes a change away from a top-tier current
\* model to a tier that is not opus, and authorizes nothing when the
\* configuration disables tiering.
C19_Guardrail ==
    applied # NoCall =>
        /\ (TopTier(applied.current_model)
               /\ applied.recommended_model # "opus") => ~applied.result
        /\ ("enabled" \in DOMAIN config /\ ~config.enabled)
               => ~applied.result

\* a confident haiku recommendation for an opus session, tiering enabled:
\* refused
C19_Witness ==
    /\ applied # NoCall
    /\ "enabled" \notin DOMAIN config
    /\ applied.current_model = "Claude-Opus-4"
    /\ applied.recommended_model = "haiku"
    /\ decision.value.confidence >= applied.min_confidence
    /\ ~applied.result

\* C20: with tiering enabled and the guardrail not triggered, the change is
\* authorized exactly when the decision's confidence is at least
\* min_confidence.
C20_ConfidenceFloor ==
    (/\ applied # NoCall
     /\ Get(config, "enabled", TRUE)
     /\ ~(TopTier(applied.current_model)
           /\ applied.recommended_model # "opus"))
    => (applied.result
           <=> decision.value.confidence >= applied.min_confidence)

(***************************************************************************)
(* Properties of analyze_session (SpecMonitor)                             *)
(***************************************************************************)
\* the latest analyze_session call returned: its result and its file
Analysed == health # NoCall /\ health.result.raised = None
Health == health.result.value
AnalysedFile == sessionsDir.entries[health.session_file]

\* x > hundredths / 100, for a fraction x
Above(x, hundredths) == x.num * 100 > hundredths * x.den

\* the eight rules in their precedence, and the text of each
Rules(h) ==
    <<h.max_nested_injections > 1,
      h.file_size_kb > 10000,
      h.injection_count > 50,
      Above(h.context_utilization, 90),
      h.file_size_kb > 2000,
      h.injection_count > 10,
      Above(h.context_utilization, 70),
      lt(float(500), h.growth_rate_kb_per_min)>>

RuleTexts(h) ==
    <<"Nested injection blocks detected ("
          \o ToString(h.max_nested_injections) \o ") - possible feedback loop",
      "Session exceeds size limit - archive immediately",
      "High injection count (" \o ToString(h.injection_count)
          \o ") - possible bloat",
      "Context window nearly full - archive soon",
      "Session growing large - monitor closely",
      "Elevated injection count (" \o ToString(h.injection_count) \o ")",
      "Context utilization elevated",
      "Rapid growth detected (" \o round_0f(h.growth_rate_kb_per_min)
          \o " KB/min)">>

\* the rule that decides: the first that holds, 0 when none does
Deciding(h) ==
    IF \E k \in 1..8 : Rules(h)[k]
    THEN CHOOSE k \in 1..8 : Rules(h)[k] /\ \A j \in 1..(k - 1) : ~Rules(h)[j]
    ELSE 0

\* the user messages of a file: the texts of its lines that are message
\* entries of role user
UserTexts(file) ==
    {Get(json_loads(file.content[i]).value.message, "content", <<>>) :
        i \in {i \in 1..Len(file.content) :
                 LET parsed == json_loads(file.content[i])
                 IN  /\ parsed.raised = None
                     /\ IsDict(parsed.value)
                     /\ Get(parsed.value, "type", None) = "message"
                     /\ "message" \in DOMAIN parsed.value
                     /\ IsDict(parsed.value.message)
                     /\ Get(parsed.value.message, "role", None) = "user"}}

\* the injection blocks of a text: the markers with the phrase after them
BlocksIn(content) ==
    Cardinality({i \in 1..Len(content) :
                    /\ content[i] \in Markers
                    /\ i + 2 <= Len(content)
                    /\ content[i + 1] = " "
                    /\ content[i + 2] = Recovered})

\* C21: the status analyze_session returns is CRITICAL exactly when one of
\* the four critical rules holds, WARNING exactly when none of them and one
\* of the four warning rules holds, and HEALTHY otherwise; the
\* recommendation is the text of the first rule that holds; and a file
\* with a user message of two injection blocks is CRITICAL whatever its
\* size.
C21_MostSevereWins ==
    Analysed =>
        /\ Health.status = "CRITICAL" <=> \E k \in 1..4 : Rules(Health)[k]
        /\ Health.status = "WARNING" <=>
               /\ \A k \in 1..4 : ~Rules(Health)[k]
               /\ \E k \in 5..8 : Rules(Health)[k]
        /\ Health.status = "HEALTHY" <=> \A k \in 1..8 : ~Rules(Health)[k]
        /\ Deciding(Health) # 0 =>
               Health.recommendation = RuleTexts(Health)[Deciding(Health)]
        /\ Deciding(Health) = 0 =>
               Health.recommendation = "Session is healthy"
        /\ (/\ AnalysedFile.state = "file"
            /\ \E content \in UserTexts(AnalysedFile) : BlocksIn(content) >= 2)
           => Health.status = "CRITICAL"

\* The part of C21 that holds: status and recommendation follow the rules
\* as the code evaluates them.
StatusFollowsRules ==
    Analysed =>
        /\ Health.status = "CRITICAL" <=> \E k \in 1..4 : Rules(Health)[k]
        /\ Health.status = "WARNING" <=>
               /\ \A k \in 1..4 : ~Rules(Health)[k]
               /\ \E k \in 5..8 : Rules(Health)[k]
        /\ Health.status = "HEALTHY" <=> \A k \in 1..8 : ~Rules(Health)[k]
        /\ Deciding(Health) # 0 =>
               Health.recommendation = RuleTexts(Health)[Deciding(Health)]

\* C22: the context utilization analyze_session reports lies in [0, 1].
C22_UtilizationInUnitRange ==
    Analysed =>
        /\ Health.context_utilization.num >= 0
        /\ Health.context_utilization.num <= Health.context_utilization.den

\* a step in which analyze_session returned
AnalysisStep ==
    /\ analyses' = analyses + 1
    /\ health' # NoCall
    /\ health'.result.raised = None

\* C23: the growth rate is 0 whenever fewer than two samples of the session
\* are left in its history: on the first analysis of a session, and on an
\* analysis made more than 300 seconds after the one before it.
C23_NoRateBelowTwoSamples ==
    [][AnalysisStep =>
        LET session_id == stem(health'.session_file)
            before == Get(size_history, session_id, <<>>)
            rate == health'.result.value.growth_rate_kb_per_min
        IN  /\ Len(size_history'[session_id]) < 2 => rate = float(0)
            /\ before = <<>> => rate = float(0)
            /\ (/\ before # <<>>
                /\ clock' - before[Len(before)][1] > 300) => rate = float(0)]_vars

\* a second or third analysis that found no earlier sample in the window
C23_Witness ==
    /\ Analysed
    /\ analyses >= 2
    /\ Len(size_history[Health.session_id]) = 1
    /\ Health.growth_rate_kb_per_min = float(0)

\* the lines of a file that are message entries, and the blocks of each
\* as the pattern counts them
MessageLines(file) ==
    {i \in 1..Len(file.content) :
        LET parsed == json_loads(file.content[i])
        IN  /\ parsed.raised = None
            /\ IsDict(parsed.value)
            /\ Get(parsed.value, "type", None) = "message"
            /\ IsDict(Get(parsed.value, "message", EmptyDict))}

BlocksOfLine(file, i) ==
    LET msg == Get(json_loads(file.content[i]).value, "message", EmptyDict)
    IN  IF Get(msg, "role", None) = "user"
        THEN findall(Get(msg, "content", <<>>), 1)
        ELSE 0

\* C24: the counts of analyze_session cover every message entry of the
\* file, those after a line that is no entry included: message_count is
\* their number, injection_count the blocks of all of them, and
\* max_nested_injections the most blocks of one of them.
C24_BadLinesSkipped ==
    (Analysed /\ AnalysedFile.state = "file") =>
        LET valid == MessageLines(AnalysedFile)
        IN  /\ Health.message_count = Cardinality(valid)
            /\ Health.injection_count =
                   Cardinality({<<i, k>> \in valid \X (1..3) :
                                   k <= BlocksOfLine(AnalysedFile, i)})
            /\ \A i \in valid :
                   BlocksOfLine(AnalysedFile, i) <= Health.max_nested_injections
            /\ \/ Health.max_nested_injections = 0
               \/ \E i \in valid :
                   BlocksOfLine(AnalysedFile, i) = Health.max_nested_injections

\* the whole part of a float that is not negative and below 2^26
Floor(x) ==
    IF x.hi = 0 \/ 0 - x.exp > 53 THEN 0 ELSE x.hi \div 2 ^ (0 - x.exp - 27)

\* C27: with two or more samples left, the growth rate is the difference
\* of the latest and the earliest size over the minutes between them, as
\* float division gives it (the whole KB per minute below or at the exact
\* quotient), 0 when the file shrank or kept its size, and 0 when less than
\* 6 seconds lie between them; it is never negative.
C27_RateOverWindow ==
    Analysed =>
        LET history == size_history[Health.session_id]
            rate == Health.growth_rate_kb_per_min
            seconds == history[Len(history)][1] - history[1][1]
            size_diff == history[Len(history)][2] - history[1][2]
        IN  /\ ~lt(rate, float(0))
            /\ Len(history) >= 2 =>
                  IF seconds < 6 \/ size_diff <= 0
                  THEN rate = float(0)
                  ELSE /\ rate = truediv(float(size_diff),
                                         truediv(float(seconds), float(60)))
                       /\ Floor(rate) * seconds <= size_diff * 60
                       /\ size_diff * 60 <= (Floor(rate) + 1) * seconds

\* a file that grew by 175 KB in 21 seconds, 500 KB per minute: the rate
\* is the float next above 500
C27_Witness ==
    /\ Analysed
    /\ size_history[Health.session_id] = <<<<3, 8>>, <<24, 183>>>>
    /\ lt(float(500), Health.growth_rate_kb_per_min)
    /\ Floor(Health.growth_rate_kb_per_min) = 500

\* the rules that can decide the next analysis of the session: for each
\* file it may then be and each delay
NextDeciding ==
    {Deciding(analyze_session(size_history, S1, file, clock + delay).value) :
        file \in SessionFiles \ {MissingFile}, delay \in MonitorDelays}

\* C30: each of the eight rules decides the status of some analysis: for
\* every rule there are a session file and an analysis history for which
\* it is the first rule that holds.  The first seven rules do not read
\* the history, so the claim is that with a history that lets the growth
\* rule decide for some file, each other rule decides for some file.
C30_EveryRuleDecides ==
    8 \in NextDeciding => \A k \in 1..8 : k \in NextDeciding

\* What holds instead of C30 for the fifth rule: a file of more than 2000
\* KB has a context utilization above 0.90, so that the fourth rule (or an
\* earlier one) decides.
SizeWarningNeverDecides == Analysed => Deciding(Health) # 5

(***************************************************************************)
(* Properties of the size history and of directory scans (SpecScan)        *)
(***************************************************************************)
\* the sessions a step analysed, each with the size it was found to have
AnalysedIn(h, s) ==
    IF h # NoCall
    THEN IF h.result.raised = None THEN {h.result.value} ELSE {}
    ELSE IF s # NoCall THEN {s.all[i] : i \in 1..Len(s.all)} ELSE {}

\* kept is what is left of samples when those not later than cutoff are
\* dropped and nothing else changes
IsWindowOf(kept, samples, cutoff) ==
    \E dropped \in SUBSET (1..Len(samples)) :
        /\ \A i \in 1..Len(samples) : i \in dropped <=> samples[i][1] <= cutoff
        /\ Len(kept) = Len(samples) - Cardinality(dropped)
        /\ \A i \in 1..Len(kept) :
               \E j \in (1..Len(samples)) \ dropped :
                   /\ kept[i] = samples[j]
                   /\ Cardinality({m \in (1..j) \ dropped : TRUE}) = i

\* C28: a step that updates the history of a session leaves in it the
\* sample just taken, as the last one, and of the samples it held those
\* taken less than 300 seconds before, in the order they had; the
\* histories of the sessions the step did not analyse stay as they are.
C28_HistoryWindow ==
    [][\A session_id \in {stem(S1), stem(S2)} :
          LET before == Get(size_history, session_id, <<>>)
              taken == {h \in AnalysedIn(health', sessions') :
                           h.session_id = session_id}
          IN  IF taken = {}
              THEN Get(size_history', session_id, <<>>) = before
              ELSE \A h \in taken :
                     LET after == size_history'[session_id]
                     IN  /\ after # <<>>
                         /\ after[Len(after)] = <<clock', h.file_size_kb>>
                         /\ \A i \in 1..Len(after) : after[i][1] > clock' - 300
                         /\ IsWindowOf(after,
                                Append(before, <<clock', h.file_size_kb>>),
                                clock' - 300)]_vars

\* three scans, of which the first is out of the window of the third and
\* the second is in it
C28_Witness ==
    /\ analyses = 3
    /\ DOMAIN size_history = {stem(S1), stem(S2)}
    /\ Len(size_history[stem(S1)]) = 2
    /\ Len(size_history[stem(S2)]) = 2
    /\ size_history[stem(S1)][1][1] = size_history[stem(S2)][1][1]
    /\ size_history[stem(S1)][2][1] = size_history[stem(S2)][2][1]
    /\ size_history[stem(S1)][2][1] = clock

\* the names a scan takes up: those glob('*.jsonl') gives, less the
\* archived ones
Discovered ==
    {f \in DOMAIN sessionsDir.entries :
        /\ f[Len(f)] = "jsonl"
        /\ ~\E i \in 2..(Len(f) - 1) : f[i] = "archived"}

ScannedIds == {sessions.all[i].session_id : i \in 1..Len(sessions.all)}

\* get_alerts returned the entries of its scan that are not HEALTHY
AlertsOfScan ==
    sessions.call = "get_alerts" =>
        /\ \A i \in 1..Len(sessions.result.value) :
               /\ sessions.result.value[i].status # "HEALTHY"
               /\ \E j \in 1..Len(sessions.all) :
                      sessions.all[j] = sessions.result.value[i]
        /\ Len(sessions.result.value)
               = Cardinality({j \in 1..Len(sessions.all) :
                                 sessions.all[j].status # "HEALTHY"})

\* C25 as stated: a scan gives one entry for each discovered session file
\* that can be stat'ed and read and none for the others, and get_alerts
\* gives the entries of its scan that are not healthy.
C25_OmitsUnreadable ==
    (sessions # NoCall /\ Exists(sessionsDir)) =>
        /\ ScannedIds = {stem(f) : f \in {f \in Discovered :
                             sessionsDir.entries[f].state = "file"}}
        /\ Len(sessions.all) = Cardinality(ScannedIds)
        /\ AlertsOfScan

\* C25, amended: a scan gives one entry for each discovered session file
\* that can be stat'ed, readable or not, and none for the others, and
\* get_alerts gives the entries of its scan that are not healthy.
C25_OmitsOnlyRaising ==
    (sessions # NoCall /\ Exists(sessionsDir)) =>
        /\ ScannedIds = {stem(f) : f \in {f \in Discovered :
                             Exists(sessionsDir.entries[f])}}
        /\ Len(sessions.all) = Cardinality(ScannedIds)
        /\ sessions.result.raised = None
        /\ AlertsOfScan

\* a get_alerts call over a directory listing first a session file that
\* is not there and then one that is over the size limit
C25_Witness ==
    /\ sessions # NoCall
    /\ Exists(sessionsDir)
    /\ sessions.call = "get_alerts"
    /\ sessions.paths[4] = S1
    /\ sessionsDir.entries[S2] = MissingFile
    /\ Len(sessions.result.value) = 1
    /\ sessions.result.value[1].session_id = stem(S1)

(***************************************************************************)
(* The Cost dataclass on its own (SpecCostObject): a Cost call with the    *)
(* four components given and the total given or left out.                  *)
(***************************************************************************)
CostArguments ==
    LET components == [{"input_cost", "output_cost", "cache_read_cost",
                        "cache_write_cost"} -> {0, 150000}]
    IN  components
        \cup {c @@ ("total" :> t) : c \in components,
                                    t \in {0, 150000, 5000000}}

InitCostObject ==
    /\ pricingFile = MissingFile
    /\ pricing = EmptyDict
    /\ estPc = "new"
    /\ costsDir = FALSE
    /\ response = NoCall
    /\ cost = NoCall
    /\ prevResponse = NoCall
    /\ prevCost = NoCall
    /\ TierNotInUse
    /\ LogNotInUse
    /\ MonitorNotInUse
    /\ costKwargs \in CostArguments
    /\ costObj = NoCall

\* Cost with the keyword arguments costKwargs: the dataclass defaults,
\* then __post_init__
ConstructCost ==
    /\ costObj = NoCall
    /\ costObj' = Cost(Get(costKwargs, "input_cost", 0),
                       Get(costKwargs, "output_cost", 0),
                       Get(costKwargs, "cache_read_cost", 0),
                       Get(costKwargs, "cache_write_cost", 0),
                       Get(costKwargs, "total", 0))
    /\ UNCHANGED <<costVars, loadVars, logVars, sumVars, tierVars, monVars,
                   costKwargs>>

NextCostObject == ConstructCost

SpecCostObject == InitCostObject /\ [][NextCostObject]_vars

\* C26: a Cost constructed with a total keeps that total, whatever it is,
\* a total of 0 next to components that are not 0 included; the total is
\* the sum of the four components only when none is given.
C26_ExplicitTotalKept ==
    costObj # NoCall =>
        IF "total" \in DOMAIN costKwargs
        THEN costObj.total = costKwargs.total
        ELSE costObj.total = costObj.input_cost + costObj.output_cost
                             + costObj.cache_read_cost
                             + costObj.cache_write_cost

(***************************************************************************)
(* The evidence of a decision (SpecTier)                                   *)
(***************************************************************************)
\* the patterns of the instance's list for the group g that are found in
\* the message of the latest call, in the order of the list
FoundIn(g) ==
    SelectSeq(patterns[g],
              LAMBDA p : search(p, strip(tierInput.str)))

\* C29: the evidence of a decision made by a pattern lists every pattern
\* of the deciding group found in the message, each once and under the name
\* of that group, which is the tier recommended, and nothing of the other
\* groups; it is empty exactly when the decision is the default one.
C29_EvidenceOfWinningGroup ==
    Decided =>
        LET d == decision.value
            evidence == d.patterns_matched
            by_default ==
                d.reason = "No specific patterns matched, using default"
        IN  /\ evidence = <<>> <=> by_default
            /\ by_default <=>
                   \A g \in {"haiku", "opus", "sonnet"} : FoundIn(g) = <<>>
            /\ ~by_default =>
                   /\ Len(evidence) = Len(FoundIn(d.recommended_model))
                   /\ \A i \in 1..Len(evidence) :
                          evidence[i] = <<d.recommended_model,
                                          FoundIn(d.recommended_model)[i]>>

\* a haiku decision on two haiku patterns for a message in which a sonnet
\* pattern is found as well
C29_Witness ==
    /\ Decided
    /\ config = EmptyDict
    /\ Len(FoundIn("haiku")) = 2
    /\ FoundIn("sonnet") # <<>>
    /\ Len(decision.value.patterns_matched) = 2
    /\ decision.value.patterns_matched[2][1] = "haiku"
====
